---- MODULE Spec2Model ----
(***************************************************************************)
(* Filter-effects pipeline of librsvg: the filter execution context        *)
(* (rsvg_internals/src/filters/context.rs), the bounds computation, the    *)
(* feComposite primitive (rsvg_internals/src/filters/composite.rs) and the *)
(* lighting primitives (rsvg_internals/src/filters/light/lighting.rs),     *)
(* with the parsing of length lists (rust/src/length.rs) and the state of  *)
(* the XML event handlers (rsvg_internals/src/xml.rs).                     *)
(*                                                                         *)
(* In the geometry, real numbers (f64) are fixed-point integers counting   *)
(* units of 1/SubPixel.  Lengths and rectangles are in those units; matrix *)
(* entries, view-box sizes, the object bounding box, the font size and the *)
(* dpi are whole numbers, so that every product the code forms is exact.   *)
(* In the pixel arithmetic, real numbers are exact fractions <<n, d>>.     *)
(* Option<T> is a sequence: <<>> is None and <<v>> is Some(v).             *)
(***************************************************************************)
EXTENDS Integers, Sequences, FiniteSets, TLC

VARIABLES
    node,              \* FilterContext.node: the <filter> element (NodeFilter)
    source_surface,    \* FilterContext.source_surface
    last_result,       \* FilterContext.last_result: Option<FilterOutput>
    previous_results,  \* FilterContext.previous_results: set of <<name, FilterOutput>>
    affine,            \* FilterContext.affine
    paffine,           \* FilterContext.paffine
    drawing_ctx,       \* the RsvgDrawingCtx behind FilterContext.drawing_ctx
    new_args,          \* history: the arguments FilterContext::new was called with
    stored,            \* history: the FilterResults given to store_result, in call order
    last_op,           \* history: the most recent call and its arguments
    ret,               \* history: what the most recent call returned
    pc,                \* "live" while the context exists, "done" once into_output
                       \* consumed it, "panicked" once a call has panicked
    tree,              \* XmlState.tree: Option<Tree>
    context_stack      \* XmlState.context_stack: the Contexts, the top last

vars == <<node, source_surface, last_result, previous_results, affine, paffine,
          drawing_ctx, new_args, stored, last_op, ret, pc, tree, context_stack>>

---------------------------------------------------------------------------
(* Bounds of the model *)

SubPixel == 2      \* fixed-point resolution: one pixel is SubPixel units
MaxPx == 4         \* the source surface is MaxPx wide and MaxPx - 1 high
MaxStores == 2     \* store_result calls followed in one chain
MaxChildren == 3   \* children of a lighting node
MaxAtts == 2       \* attributes in the property bag of a node
MaxLen == 5        \* characters in the string given to parse_length_list
MaxDepth == 3      \* elements open at the same time
MaxText == 1       \* characters received by one element

---------------------------------------------------------------------------
(* Option<T> *)

None == <<>>
Some(v) == <<v>>
is_some(o) == o # <<>>
is_none(o) == o = <<>>
unwrap(o) == o[1]
unwrap_or(o, d) == IF o = <<>> THEN d ELSE o[1]

Min(a, b) == IF a <= b THEN a ELSE b
Max(a, b) == IF a >= b THEN a ELSE b

\* f64::floor and f64::ceil of a fixed-point value, as a whole number
floor(v) == v \div SubPixel
ceil(v) == -((-v) \div SubPixel)

---------------------------------------------------------------------------
(* cairo::Matrix and cairo::Rectangle *)

Matrix(xx, yx, xy, yy, x0, y0) ==
    [xx |-> xx, yx |-> yx, xy |-> xy, yy |-> yy, x0 |-> x0, y0 |-> y0]

identity == Matrix(1, 0, 0, 1, 0, 0)

\* cairo_matrix_multiply: the effect of a is applied first, then b
multiply(a, b) ==
    Matrix(a.xx * b.xx + a.yx * b.xy,
           a.xx * b.yx + a.yx * b.yy,
           a.xy * b.xx + a.yy * b.xy,
           a.xy * b.yx + a.yy * b.yy,
           a.x0 * b.xx + a.y0 * b.xy + b.x0,
           a.x0 * b.yx + a.y0 * b.yy + b.y0)

determinant(m) == m.xx * m.yy - m.yx * m.xy

\* cairo_matrix_invert, exact for the matrices of determinant 1 or -1
invert(m) ==
    LET d == determinant(m) IN
    Matrix(d * m.yy, -d * m.yx, -d * m.xy, d * m.xx,
           d * (m.xy * m.y0 - m.yy * m.x0),
           d * (m.yx * m.x0 - m.xx * m.y0))

Rectangle(x, y, width, height) == [x |-> x, y |-> y, width |-> width, height |-> height]

\* the bounding box of the four transformed corners of r
rect_transform(r, m) ==
    LET xs == {m.xx * cx + m.xy * cy + m.x0 * SubPixel :
                   cx \in {r.x, r.x + r.width}, cy \in {r.y, r.y + r.height}}
        ys == {m.yx * cx + m.yy * cy + m.y0 * SubPixel :
                   cx \in {r.x, r.x + r.width}, cy \in {r.y, r.y + r.height}}
        xmin == CHOOSE v \in xs : \A w \in xs : v <= w
        xmax == CHOOSE v \in xs : \A w \in xs : v >= w
        ymin == CHOOSE v \in ys : \A w \in ys : v <= w
        ymax == CHOOSE v \in ys : \A w \in ys : v >= w
    IN Rectangle(xmin, ymin, xmax - xmin, ymax - ymin)

rect_is_empty(r) == r.width = 0 \/ r.height = 0

\* Option<Rectangle>: None when the two rectangles share no area
rect_intersect(a, b) ==
    LET x1 == Max(a.x, b.x)
        y1 == Max(a.y, b.y)
        x2 == Min(a.x + a.width, b.x + b.width)
        y2 == Min(a.y + a.height, b.y + b.height)
    IN IF x2 > x1 /\ y2 > y1 THEN Some(Rectangle(x1, y1, x2 - x1, y2 - y1)) ELSE None

rect_union(a, b) ==
    IF rect_is_empty(b) THEN a
    ELSE IF rect_is_empty(a) THEN b
    ELSE LET x1 == Min(a.x, b.x)
             y1 == Min(a.y, b.y)
             x2 == Max(a.x + a.width, b.x + b.width)
             y2 == Max(a.y + a.height, b.y + b.height)
         IN Rectangle(x1, y1, x2 - x1, y2 - y1)

---------------------------------------------------------------------------
(* BoundingBox (bbox.rs) *)

BoundingBox_new(m) == [affine |-> m, rect |-> None]

with_rect(bbox, rect) == [bbox EXCEPT !.rect = rect]

\* An empty intersection is the empty rectangle, never no rectangle at all.
combine_rects(r1, r2, m, clip) ==
    IF is_none(r2) THEN r1
    ELSE IF is_none(r1) THEN Some(rect_transform(unwrap(r2), m))
    ELSE IF clip
         THEN LET i == rect_intersect(rect_transform(unwrap(r2), m), unwrap(r1))
              IN IF is_some(i) THEN i ELSE Some(Rectangle(0, 0, 0, 0))
         ELSE Some(rect_union(rect_transform(unwrap(r2), m), unwrap(r1)))

combine(self, src, clip) ==
    IF is_none(src.rect) THEN self
    ELSE [self EXCEPT !.rect =
              combine_rects(self.rect, src.rect,
                            multiply(src.affine, invert(self.affine)), clip)]

\* union of src into self
insert(self, src) == combine(self, src, FALSE)

\* intersection of self with src
clip(self, src) == combine(self, src, TRUE)

---------------------------------------------------------------------------
(* RsvgDrawingCtx: the view-box stack, the object bounding box, the current
   transformation, the font size and the resolution *)

push_view_box(dc, w, h) ==
    [dc EXCEPT !.vb_stack = Append(dc.vb_stack, dc.vb), !.vb = <<w, h>>]

pop_view_box(dc) ==
    [dc EXCEPT !.vb = dc.vb_stack[Len(dc.vb_stack)],
               !.vb_stack = SubSeq(dc.vb_stack, 1, Len(dc.vb_stack) - 1)]

get_view_box_size(dc) == dc.vb

---------------------------------------------------------------------------
(* RsvgLength (length.rs) *)

RsvgLength(l, unit, dir) == [length |-> l, unit |-> unit, dir |-> dir]

\* Lengths of direction Both do not occur among the x/y/width/height
\* attributes of a filter or of a primitive.
normalize(len, dc) ==
    CASE len.unit = "Default" -> len.length
      [] len.unit = "Percent" ->
            IF len.dir = "Horizontal" THEN len.length * get_view_box_size(dc)[1]
            ELSE len.length * get_view_box_size(dc)[2]
      [] len.unit = "FontEm" -> len.length * dc.font_size
      [] len.unit = "FontEx" -> (len.length * dc.font_size) \div 2
      [] len.unit = "Inch" ->
            IF len.dir = "Horizontal" THEN len.length * dc.dpi[1]
            ELSE len.length * dc.dpi[2]
      [] OTHER -> 0

---------------------------------------------------------------------------
(* FilterContext (filters/context.rs) *)

IRect(x0, y0, x1, y1) == [x0 |-> x0, y0 |-> y0, x1 |-> x1, y1 |-> y1]

FilterOutput(surface, bounds) == [surface |-> surface, bounds |-> bounds]

FilterResult(name, output) == [name |-> name, output |-> output]

\* compute_bounds, the filter region in filter units: the rectangle, the
\* drawing context the step leaves behind and the view-box stack depths it
\* went through
filter_rect(self, dc0) ==
    LET obb == self.node.filterunits = "ObjectBoundingBox"
        dc1 == IF obb THEN push_view_box(dc0, 1, 1) ELSE dc0
        rect == Rectangle(normalize(self.node.x, dc1), normalize(self.node.y, dc1),
                          normalize(self.node.width, dc1),
                          normalize(self.node.height, dc1))
        dc2 == IF obb THEN pop_view_box(dc1) ELSE dc1
    IN [rect |-> rect, dc |-> dc2,
        depths |-> <<Len(dc0.vb_stack), Len(dc1.vb_stack), Len(dc2.vb_stack)>>]

\* the size of the primitive subregion: <<width, height>>.  rect is the
\* filter region as filter_rect normalized it and dc the drawing context in
\* force for primitive units.
primitive_size_from_rect(width, height, dc, rect) ==
    <<IF is_some(width) THEN normalize(unwrap(width), dc) ELSE rect.width,
      IF is_some(height) THEN normalize(unwrap(height), dc) ELSE rect.height>>

primitive_size(width, height, dc, rect) ==
    IF is_some(width) \/ is_some(height)
    THEN LET vbox == get_view_box_size(dc) IN
         <<IF is_some(width) THEN normalize(unwrap(width), dc)
           ELSE vbox[1] * SubPixel,
           IF is_some(height) THEN normalize(unwrap(height), dc)
           ELSE vbox[2] * SubPixel>>
    ELSE <<rect.width, rect.height>>

\* the primitive subregion computed without the pop that ends it
primitive_rect_unpopped(self, dc0, rect, x, y, width, height) ==
    LET obb == self.node.primitiveunits = "ObjectBoundingBox"
        dc1 == IF obb THEN push_view_box(dc0, 1, 1) ELSE dc0
        rx == IF is_some(x) THEN normalize(unwrap(x), dc1) ELSE 0
        ry == IF is_some(y) THEN normalize(unwrap(y), dc1) ELSE 0
        size == primitive_size(width, height, dc1, rect)
    IN [rect |-> Rectangle(rx, ry, size[1], size[2]), dc |-> dc1,
        depths |-> <<Len(dc1.vb_stack), Len(dc1.vb_stack)>>]

\* compute_bounds, the primitive subregion in primitive units; run only
\* when at least one of x, y, width, height is declared
primitive_rect(self, dc0, rect, x, y, width, height) ==
    LET obb == self.node.primitiveunits = "ObjectBoundingBox"
        dc1 == IF obb THEN push_view_box(dc0, 1, 1) ELSE dc0
        rx == IF is_some(x) THEN normalize(unwrap(x), dc1) ELSE 0
        ry == IF is_some(y) THEN normalize(unwrap(y), dc1) ELSE 0
        size == primitive_size(width, height, dc1, rect)
        dc2 == IF obb THEN pop_view_box(dc1) ELSE dc1
    IN [rect |-> Rectangle(rx, ry, size[1], size[2]), dc |-> dc2,
        depths |-> <<Len(dc1.vb_stack), Len(dc2.vb_stack)>>]

surface_rect(surface) ==
    Rectangle(0, 0, surface.width * SubPixel, surface.height * SubPixel)

\* the running box joined with the primitive subregion instead of cut by it
clip_to_primitive_widening(bbox, m, rect) ==
    insert(bbox, with_rect(BoundingBox_new(m), Some(rect)))

\* the running box cut down to the primitive subregion
clip_to_primitive(bbox, m, rect) ==
    clip(bbox, with_rect(BoundingBox_new(m), Some(rect)))

\* the running box left as it is
clip_to_surface_skipped(bbox, surface) == bbox

\* the running box cut down to the extent of the source surface
clip_to_surface(bbox, surface) ==
    clip(bbox, with_rect(BoundingBox_new(identity), Some(surface_rect(surface))))

any_declared(x, y, width, height) ==
    is_some(x) \/ is_some(y) \/ is_some(width) \/ is_some(height)

\* One call of compute_bounds: the IRect it returns, the drawing context
\* it leaves behind and the view-box stack depths it went through.
compute_bounds_run(self, x, y, width, height) ==
    LET f == filter_rect(self, self.drawing_ctx)
        bbox0 == BoundingBox_new(identity)
        bbox1 == insert(bbox0, with_rect(BoundingBox_new(self.affine), Some(f.rect)))
        declared == any_declared(x, y, width, height)
        p == IF declared THEN primitive_rect(self, f.dc, f.rect, x, y, width, height)
             ELSE [rect |-> f.rect, dc |-> f.dc, depths |-> <<>>]
        bbox2 == IF declared THEN clip_to_primitive(bbox1, self.paffine, p.rect)
                 ELSE bbox1
        bbox3 == clip_to_surface(bbox2, self.source_surface)
        bbox_rect == unwrap(bbox3.rect)
    IN [bounds |-> IRect(floor(bbox_rect.x), floor(bbox_rect.y),
                         ceil(bbox_rect.x + bbox_rect.width),
                         ceil(bbox_rect.y + bbox_rect.height)),
        drawing_ctx |-> p.dc,
        depths |-> f.depths \o p.depths]

compute_bounds(self, x, y, width, height) ==
    compute_bounds_run(self, x, y, width, height).bounds

\* the matrix FilterContext::new derives from a units attribute
units_affine(units, draw_ctx) ==
    IF units = "UserSpaceOnUse" THEN draw_ctx.cr_affine
    ELSE multiply(Matrix(draw_ctx.bbox.width, 0, 0, draw_ctx.bbox.height,
                         draw_ctx.bbox.x, draw_ctx.bbox.y),
                  draw_ctx.cr_affine)

\* the context with no last result at construction
FilterContext_new_unseeded(filter_node, surface, draw_ctx) ==
    [node |-> filter_node,
     source_surface |-> surface,
     last_result |-> None,
     previous_results |-> {},
     affine |-> units_affine(filter_node.filterunits, draw_ctx),
     paffine |-> units_affine(filter_node.primitiveunits, draw_ctx),
     drawing_ctx |-> draw_ctx]

FilterContext_new(filter_node, surface, draw_ctx) ==
    LET rv == [node |-> filter_node,
               source_surface |-> surface,
               last_result |-> None,
               previous_results |-> {},
               affine |-> units_affine(filter_node.filterunits, draw_ctx),
               paffine |-> units_affine(filter_node.primitiveunits, draw_ctx),
               drawing_ctx |-> draw_ctx]
    IN [rv EXCEPT !.last_result =
            Some(FilterOutput(rv.source_surface,
                              compute_bounds(rv, None, None, None, None)))]

\* Input (filters/input.rs): the value of an in or in2 attribute
Input(tag, name) == [tag |-> tag, name |-> name]
SourceGraphic == Input("SourceGraphic", "")
SourceAlpha == Input("SourceAlpha", "")
Input_FilterOutput(name) == Input("FilterOutput", name)

last_result_of(self) == self.last_result

source_graphic(self) == self.source_surface

\* HashMap::get on previous_results
filter_output(self, name) ==
    IF \E e \in self.previous_results : e[1] = name
    THEN Some((CHOOSE e \in self.previous_results : e[1] = name)[2])
    ELSE None

into_output_source(self) == self.source_surface

into_output(self) ==
    IF is_some(self.last_result) THEN unwrap(self.last_result).surface
    ELSE self.source_surface

\* an insert that keeps the entry the map already holds for the key
hashmap_insert_if_absent(map, key, value) ==
    IF \E e \in map : e[1] = key THEN map ELSE map \cup {<<key, value>>}

\* HashMap::insert: the entry for key is replaced
hashmap_insert(map, key, value) ==
    {e \in map : e[1] # key} \cup {<<key, value>>}

\* last_result follows named results only
store_result_named_only(self, result) ==
    IF is_some(result.name)
    THEN [self EXCEPT !.previous_results =
                          hashmap_insert(@, unwrap(result.name), result.output),
                      !.last_result = Some(result.output)]
    ELSE self

\* an unnamed result is filed under the empty name
store_result_default_name(self, result) ==
    [self EXCEPT !.previous_results =
                     hashmap_insert(@, unwrap_or(result.name, ""), result.output),
                 !.last_result = Some(result.output)]

\* the stored surface also becomes the source graphic
store_result_as_source(self, result) ==
    [self EXCEPT !.previous_results =
                     IF is_some(result.name)
                     THEN hashmap_insert(@, unwrap(result.name), result.output)
                     ELSE @,
                 !.last_result = Some(result.output),
                 !.source_surface = result.output.surface]

store_result(self, result) ==
    [self EXCEPT !.previous_results =
                     IF is_some(result.name)
                     THEN hashmap_insert(@, unwrap(result.name), result.output)
                     ELSE @,
                 !.last_result = Some(result.output)]

\* the inputs get_input has no implementation for: the call panics
get_input_unimplemented(in_) ==
    /\ is_some(in_)
    /\ unwrap(in_).tag \notin {"SourceGraphic", "FilterOutput"}

\* a name that is not stored resolves to the last result
get_input_fallback(self, in_) ==
    IF is_none(in_)
    THEN Some(unwrap_or(last_result_of(self),
                        FilterOutput(source_graphic(self), IRect(0, 0, 0, 0))))
    ELSE IF unwrap(in_).tag = "SourceGraphic"
    THEN Some(FilterOutput(source_graphic(self), IRect(0, 0, 0, 0)))
    ELSE IF is_some(filter_output(self, unwrap(in_).name))
    THEN filter_output(self, unwrap(in_).name)
    ELSE last_result_of(self)

\* Option<FilterOutput>, for the inputs that are implemented
get_input(self, in_) ==
    IF is_none(in_)
    THEN Some(unwrap_or(last_result_of(self),
                        FilterOutput(source_graphic(self), IRect(0, 0, 0, 0))))
    ELSE IF unwrap(in_).tag = "SourceGraphic"
    THEN Some(FilterOutput(source_graphic(self), IRect(0, 0, 0, 0)))
    ELSE filter_output(self, unwrap(in_).name)

---------------------------------------------------------------------------
(* Composite (filters/composite.rs) on surfaces taken as wholes *)

Primitive(in_, result, x, y, width, height) ==
    [in_ |-> in_, result |-> result, x |-> x, y |-> y, width |-> width,
     height |-> height]

Composite(base, in2, operator) ==
    [base |-> base, in2 |-> in2, operator |-> operator,
     k1 |-> 0, k2 |-> 0, k3 |-> 0, k4 |-> 0]

Ok(result) == [tag |-> "Ok", err |-> "", result |-> Some(result)]
Err(e) == [tag |-> "Err", err |-> e, result |-> None]
Panic == [tag |-> "Panic", err |-> "not implemented", result |-> None]

\* Primitive::get_bounds: the bounds of the primitive's declared subregion
get_bounds(base, ctx) == compute_bounds(ctx, base.x, base.y, base.width, base.height)

\* PrimitiveWithInput::get_input: the input named by the in attribute
base_get_input(base, ctx) == get_input(ctx, base.in_)

\* get_surface: the surface of a resolved input, an error for an unresolved one
get_surface(output) ==
    IF is_some(output) THEN Ok(unwrap(output).surface)
    ELSE Err("InputSurfaceUnavailable")

\* the surfaces the context refers to
live_ids(ctx) ==
    {ctx.source_surface.id}
        \cup (IF is_some(ctx.last_result) THEN {unwrap(ctx.last_result).surface.id}
              ELSE {})
        \cup {e[2].surface.id : e \in ctx.previous_results}

\* ImageSurface::create: a surface that is none of the live ones
new_surface(ctx, width, height) ==
    [id |-> CHOOSE i \in 1..(Cardinality(live_ids(ctx)) + 1) :
                /\ i \notin live_ids(ctx)
                /\ \A j \in 1..(i - 1) : j \in live_ids(ctx),
     width |-> width, height |-> height]

\* Composite::render.  env tells which of the surface operations of the
\* graphics library fails, if any: "linearize", "create" or "none".
Composite_render(self, ctx, env) ==
    LET bounds == get_bounds(self.base, ctx)
        input == get_surface(base_get_input(self.base, ctx))
        input_2 == get_surface(get_input(ctx, self.in2))
    IN IF get_input_unimplemented(self.base.in_) THEN Panic
       ELSE IF input.tag = "Err" THEN input
       ELSE IF get_input_unimplemented(self.in2) THEN Panic
       ELSE IF input_2.tag = "Err" THEN input_2
       ELSE IF env = "linearize" THEN Err("BadInputSurfaceStatus")
       ELSE IF env = "create" THEN Err("OutputSurfaceCreation")
       ELSE LET sized == IF self.operator = "Arithmetic" THEN unwrap(input.result)
                         ELSE unwrap(input_2.result)
            IN Ok(FilterResult(self.base.result,
                      FilterOutput(new_surface(ctx, sized.width, sized.height),
                                   bounds)))

\* the context as one value
Self ==
    [node |-> node, source_surface |-> source_surface, last_result |-> last_result,
     previous_results |-> previous_results, affine |-> affine, paffine |-> paffine,
     drawing_ctx |-> drawing_ctx]

---------------------------------------------------------------------------
(* The inputs the model draws from *)

H(l, unit) == RsvgLength(l, unit, "Horizontal")
V(l, unit) == RsvgLength(l, unit, "Vertical")

CoordUnits == {"UserSpaceOnUse", "ObjectBoundingBox"}

\* x of the filter region: -1px, a fraction of a pixel, -1/SubPixel of the view box
FilterXs == {H(-SubPixel, "Default"), H(1, "Default"), H(-1, "Percent")}
\* width, never negative: empty, 2px and a fraction, 200%, 1em
FilterWidths == {H(0, "Default"), H(2 * SubPixel + 1, "Default"),
                 H(2 * SubPixel, "Percent"), H(SubPixel, "FontEm")}
FilterYs == {V(0, "Default"), V(-1, "Percent")}
FilterHeights == {V(SubPixel + 1, "Default"), V(SubPixel, "Inch"),
                  V(2 * SubPixel, "Percent")}

\* x of a primitive: undeclared, 1px, right of the source surface, 1/SubPixel
\* of the view box
PrimitiveXs == {None, Some(H(SubPixel, "Default")),
                Some(H((MaxPx + 2) * SubPixel, "Default")), Some(H(1, "Percent"))}
PrimitiveWidths == {None, Some(H(SubPixel, "Default")), Some(H(SubPixel, "Percent")),
                    Some(H(3 * SubPixel, "FontEx"))}
PrimitiveYs == {None, Some(V(1, "Default"))}
PrimitiveHeights == {None, Some(V(SubPixel, "Default")), Some(V(0, "RelativeLarger"))}

\* the bounding box of the element the filter is applied to
ObjectBoxes == {Rectangle(1, 0, 3, 2), Rectangle(0, 1, 2, 2)}

\* the current transformation: none, a stretch with a shift, a quarter turn
Affines == {identity, Matrix(2, 0, 0, 1, -1, 0), Matrix(0, 1, -1, 0, MaxPx, 0)}

SourceSurface == [id |-> 0, width |-> MaxPx, height |-> MaxPx - 1]

DrawingCtx(bbox, cr_affine) ==
    [vb |-> <<MaxPx, MaxPx - 1>>, vb_stack |-> <<>>, bbox |-> bbox,
     cr_affine |-> cr_affine, font_size |-> 2, dpi |-> <<3, 3>>]

NodeFilter(filterunits, primitiveunits, x, y, width, height) ==
    [filterunits |-> filterunits, primitiveunits |-> primitiveunits,
     x |-> x, y |-> y, width |-> width, height |-> height]

NodeFilters ==
    {NodeFilter(fu, pu, x, y, w, h) :
        fu \in CoordUnits, pu \in CoordUnits, x \in FilterXs, y \in FilterYs,
        w \in FilterWidths, h \in FilterHeights}

\* the view boxes pushed before the filter is reached: none for an element
\* whose box starts at the left edge, one for the others
OuterViewBoxes(b) == IF b.x = 0 THEN <<>> ELSE <<<<MaxPx + 1, MaxPx>>>>

DrawingCtxs ==
    {[DrawingCtx(b, m) EXCEPT !.vb_stack = OuterViewBoxes(b)] :
        b \in ObjectBoxes, m \in Affines}

\* the filters a chain is followed on
ChainNodeFilters ==
    {NodeFilter("ObjectBoundingBox", "UserSpaceOnUse", H(-1, "Percent"),
                V(-1, "Percent"), H(2 * SubPixel, "Percent"), V(2 * SubPixel, "Percent")),
     NodeFilter("UserSpaceOnUse", "UserSpaceOnUse", H(1, "Default"),
                V(0, "Default"), H(2 * SubPixel + 1, "Default"), V(SubPixel + 1, "Default"))}

---------------------------------------------------------------------------
(* Construction *)

Call(op, args) == [op |-> op, args |-> args]

\* the state FilterContext::new(filter_node, surface, draw_ctx) leaves
Constructed(filter_node, surface, draw_ctx) ==
    LET rv == FilterContext_new(filter_node, surface, draw_ctx) IN
    /\ node = rv.node
    /\ source_surface = rv.source_surface
    /\ last_result = rv.last_result
    /\ previous_results = rv.previous_results
    /\ affine = rv.affine
    /\ paffine = rv.paffine
    /\ drawing_ctx = rv.drawing_ctx
    /\ new_args = [filter_node |-> filter_node, source_surface |-> surface,
                   draw_ctx |-> draw_ctx]
    /\ stored = <<>>
    /\ last_op = Call("new", <<>>)
    /\ ret = None
    /\ pc = "live"
    /\ tree = None
    /\ context_stack = <<>>

Init ==
    \E n \in ChainNodeFilters :
        Constructed(n, SourceSurface, DrawingCtx(Rectangle(1, 0, 3, 2), identity))

InitBounds ==
    \E n \in NodeFilters, dc \in DrawingCtxs : Constructed(n, SourceSurface, dc)

---------------------------------------------------------------------------
(* The filter chain: calls on one context, in any order *)

Names == {"a", "b"}

Surface(i) == [id |-> i, width |-> MaxPx, height |-> MaxPx - 1]

\* outputs a primitive may hand to store_result
Outputs ==
    {FilterOutput(Surface(1), IRect(0, 0, 2, 2)),
     FilterOutput(Surface(2), IRect(1, 1, 3, 2))}

Results == {FilterResult(n, o) : n \in {None} \cup {Some(m) : m \in Names}, o \in Outputs}

\* values of an in attribute and of an in2 attribute
Ins == {None, Some(SourceGraphic), Some(Input_FilterOutput("a")), Some(SourceAlpha)}
In2s == {None, Some(Input_FilterOutput("a")), Some(Input_FilterOutput("b"))}

\* the references get_input answers
References == {None, Some(SourceGraphic)} \cup {Some(Input_FilterOutput(n)) : n \in Names}

\* the feComposite elements rendered: every pair of inputs, and for the
\* default inputs every operator kind, result name and declared x
Composites ==
    {Composite(Primitive(i, None, None, None, None, None), i2, "Over") :
        i \in Ins, i2 \in In2s}
    \cup
    {Composite(Primitive(None, r, x, None, None, None), None, op) :
        op \in {"Over", "Arithmetic"}, r \in {None, Some("b")},
        x \in {None, Some(H(SubPixel, "Default"))}}

SetContext(self) ==
    /\ node' = self.node
    /\ source_surface' = self.source_surface
    /\ last_result' = self.last_result
    /\ previous_results' = self.previous_results
    /\ affine' = self.affine
    /\ paffine' = self.paffine

StoreResult(result) ==
    /\ pc = "live"
    /\ Len(stored) < MaxStores
    /\ SetContext(store_result(Self, result))
    /\ stored' = Append(stored, result)
    /\ last_op' = Call("store_result", <<result>>)
    /\ ret' = None
    /\ UNCHANGED <<drawing_ctx, new_args, pc, tree, context_stack>>

\* the result of the render that has just returned is stored
StoreRendered ==
    /\ last_op.op = "render"
    /\ ret.tag = "Ok"
    /\ StoreResult(unwrap(ret.result))

\* the render also files its result in the context
CompositeRenderStoring(primitive, env) ==
    /\ pc = "live"
    /\ LET r == Composite_render(primitive, Self, env) IN
        /\ ret' = r
        /\ IF r.tag = "Ok" THEN SetContext(store_result(Self, unwrap(r.result)))
           ELSE UNCHANGED <<node, source_surface, last_result, previous_results,
                            affine, paffine>>
    /\ drawing_ctx' = compute_bounds_run(Self, primitive.base.x, primitive.base.y,
                          primitive.base.width, primitive.base.height).drawing_ctx
    /\ last_op' = Call("render", <<primitive, env>>)
    /\ UNCHANGED <<new_args, stored, pc,
                   tree, context_stack>>

\* Composite::render borrows the context and returns its result
CompositeRender(primitive, env) ==
    /\ pc = "live"
    /\ ret' = Composite_render(primitive, Self, env)
    /\ drawing_ctx' = compute_bounds_run(Self, primitive.base.x, primitive.base.y,
                          primitive.base.width, primitive.base.height).drawing_ctx
    /\ last_op' = Call("render", <<primitive, env>>)
    /\ UNCHANGED <<node, source_surface, last_result, previous_results, affine,
                   paffine, new_args, stored, pc,
                   tree, context_stack>>

\* into_output consumes the context
IntoOutput ==
    /\ pc = "live"
    /\ ret' = into_output(Self)
    /\ last_op' = Call("into_output", <<>>)
    /\ pc' = "done"
    /\ UNCHANGED <<node, source_surface, last_result, previous_results, affine,
                   paffine, drawing_ctx, new_args, stored,
                   tree, context_stack>>

\* The primitives of a chain are rendered one after the other: the result
\* of a render is stored before the next render, and a render that fails
\* ends the chain.
Next ==
    \/ \E result \in Results : StoreResult(result)
    \/ StoreRendered
    \/ /\ last_op.op # "render"
       /\ \E primitive \in Composites, env \in {"none", "linearize", "create"} :
              CompositeRender(primitive, env)
    \/ IntoOutput

Spec == Init /\ [][Next]_vars

---------------------------------------------------------------------------
(* compute_bounds as a call on the context *)

ComputeBounds(x, y, width, height) ==
    /\ pc = "live"
    /\ LET run == compute_bounds_run(Self, x, y, width, height) IN
        /\ ret' = run.bounds
        /\ drawing_ctx' = run.drawing_ctx
    /\ last_op' = Call("compute_bounds", <<x, y, width, height>>)
    /\ UNCHANGED <<node, source_surface, last_result, previous_results, affine,
                   paffine, new_args, stored, pc,
                   tree, context_stack>>

\* each behaviour constructs a context and makes one call on it
NextBounds ==
    /\ last_op.op = "new"
    /\ \E x \in PrimitiveXs, y \in PrimitiveYs, width \in PrimitiveWidths,
          height \in PrimitiveHeights : ComputeBounds(x, y, width, height)

SpecBounds == InitBounds /\ [][NextBounds]_vars

---------------------------------------------------------------------------
(* Properties of compute_bounds, under SpecBounds *)

\* the arguments of the compute_bounds call the state records
cb_x == last_op.args[1]
cb_y == last_op.args[2]
cb_width == last_op.args[3]
cb_height == last_op.args[4]
cb_declared == any_declared(cb_x, cb_y, cb_width, cb_height)

irect_is_empty(r) == r.x0 = r.x1 \/ r.y0 = r.y1

\* every pixel of a is a pixel of b
irect_within(a, b) ==
    \/ irect_is_empty(a)
    \/ (b.x0 <= a.x0 /\ a.x1 <= b.x1 /\ b.y0 <= a.y0 /\ a.y1 <= b.y1)

rect_covers(a, b) ==
    /\ a.x <= b.x /\ b.x + b.width <= a.x + a.width
    /\ a.y <= b.y /\ b.y + b.height <= a.y + a.height

\* the filter region and the primitive subregion of the recorded call, in
\* the pixel space of the source surface
device_filter_rect == rect_transform(filter_rect(Self, drawing_ctx).rect, affine)
recorded_primitive_rect ==
    primitive_rect(Self, drawing_ctx, filter_rect(Self, drawing_ctx).rect,
                   cb_x, cb_y, cb_width, cb_height).rect
device_primitive_rect == rect_transform(recorded_primitive_rect, paffine)

FilterRegionLarger == rect_covers(device_filter_rect, surface_rect(source_surface))

\* C8: whatever the filter region and the declared primitive attributes,
\* the IRect compute_bounds returns has 0 <= x0 <= x1 <= surface width and
\* 0 <= y0 <= y1 <= surface height; the bounds of a filter region that
\* covers the source surface, with no primitive attribute declared, are
\* exactly (0, 0, width, height).
C8_BoundsWithinSurface ==
    last_op.op = "compute_bounds" =>
        /\ 0 <= ret.x0 /\ ret.x0 <= ret.x1 /\ ret.x1 <= source_surface.width
        /\ 0 <= ret.y0 /\ ret.y0 <= ret.y1 /\ ret.y1 <= source_surface.height
        /\ (FilterRegionLarger /\ ~cb_declared) =>
               ret = IRect(0, 0, source_surface.width, source_surface.height)

C8_Witness ==
    /\ last_op.op = "compute_bounds"
    /\ FilterRegionLarger
    /\ ~cb_declared
    /\ ret = IRect(0, 0, source_surface.width, source_surface.height)

\* C9: the bounds compute_bounds returns for declared primitive attributes
\* lie within the bounds it returns on the same context when none is
\* declared, and they are empty when the primitive subregion shares no area
\* with the filter region.
C9_PrimitiveNarrows ==
    (last_op.op = "compute_bounds" /\ cb_declared) =>
        /\ irect_within(ret, compute_bounds(Self, None, None, None, None))
        /\ is_none(rect_intersect(device_primitive_rect, device_filter_rect)) =>
               irect_is_empty(ret)

C9_Witness ==
    /\ last_op.op = "compute_bounds"
    /\ cb_declared
    /\ ~irect_is_empty(ret)
    /\ ret # compute_bounds(Self, None, None, None, None)
    /\ irect_within(ret, compute_bounds(Self, None, None, None, None))

\* the view box in force while the primitive attributes are normalized
primitive_view_box ==
    IF node.primitiveunits = "ObjectBoundingBox" THEN <<1, 1>>
    ELSE get_view_box_size(drawing_ctx)

\* C10 as stated: whenever a primitive attribute is declared, an undeclared
\* width or height is the width or height of the current view box.
C10_Original ==
    (last_op.op = "compute_bounds" /\ cb_declared) =>
        /\ is_none(cb_width) =>
               recorded_primitive_rect.width = primitive_view_box[1] * SubPixel
        /\ is_none(cb_height) =>
               recorded_primitive_rect.height = primitive_view_box[2] * SubPixel

\* C10 as amended: when width or height is declared, the undeclared one of
\* the two is the width or height of the current view box; when neither is
\* declared (only x or y is), width and height are those of the filter
\* region as normalized in filter units.
C10_ViewBoxDefault ==
    (last_op.op = "compute_bounds" /\ cb_declared) =>
        /\ (is_none(cb_width) /\ is_some(cb_height)) =>
               recorded_primitive_rect.width = primitive_view_box[1] * SubPixel
        /\ (is_none(cb_height) /\ is_some(cb_width)) =>
               recorded_primitive_rect.height = primitive_view_box[2] * SubPixel
        /\ (is_none(cb_width) /\ is_none(cb_height)) =>
               /\ recorded_primitive_rect.width = filter_rect(Self, drawing_ctx).rect.width
               /\ recorded_primitive_rect.height = filter_rect(Self, drawing_ctx).rect.height

C10_Witness ==
    /\ last_op.op = "compute_bounds"
    /\ is_some(cb_x) /\ is_none(cb_width) /\ is_none(cb_height)
    /\ recorded_primitive_rect.width # primitive_view_box[1] * SubPixel
    /\ recorded_primitive_rect.width = filter_rect(Self, drawing_ctx).rect.width

---------------------------------------------------------------------------
(* Properties of the context, under Spec *)

\* the positions in stored of the results stored under name n
StoredUnder(n) == {i \in 1..Len(stored) : stored[i].name = Some(n)}

\* the output of the latest store_result call that carried name n
LatestStoredUnder(n) ==
    stored[CHOOSE i \in StoredUnder(n) : \A j \in StoredUnder(n) : j <= i].output

\* C1: get_input with no reference returns the output of the most recent
\* store_result; before any store_result it returns the source surface
\* with the bounds compute_bounds gives when no primitive attribute is
\* declared.
C1_NoReferenceIsLastStored ==
    pc = "live" =>
        get_input(Self, None) =
            Some(IF stored = <<>>
                 THEN FilterOutput(new_args.source_surface,
                                   compute_bounds(Self, None, None, None, None))
                 ELSE stored[Len(stored)].output)

C1_Witness ==
    /\ pc = "live"
    /\ Len(stored) = 2
    /\ is_none(stored[2].name)
    /\ stored[1].output # stored[2].output
    /\ get_input(Self, None) = Some(stored[2].output)

\* C2: store_result(result) sets last_result to result.output whether or
\* not result.name is present; a present name is mapped to result.output
\* and every other name keeps its entry; with no name the named results are
\* unchanged and every named reference resolves as before.
C2_StoreStep ==
    (last_op'.op = "store_result" /\ Len(stored') = Len(stored) + 1) =>
        LET result == stored'[Len(stored')] IN
        /\ last_result' = Some(result.output)
        /\ is_some(result.name) =>
               /\ filter_output(Self', unwrap(result.name)) = Some(result.output)
               /\ \A e \in previous_results :
                      e[1] # unwrap(result.name) => e \in previous_results'
               /\ \A e \in previous_results' :
                      e[1] # unwrap(result.name) => e \in previous_results
        /\ is_none(result.name) =>
               /\ previous_results' = previous_results
               /\ \A n \in Names \cup {""} :
                      get_input(Self', Some(Input_FilterOutput(n)))
                          = get_input(Self, Some(Input_FilterOutput(n)))

\* C2: every step of a behaviour that is a store_result call has the
\* effect and the frame C2_StoreStep states.
C2_StoreResultFrame == [][C2_StoreStep]_vars

C2_Witness ==
    /\ last_op.op = "store_result"
    /\ Len(stored) = 2
    /\ stored[1].name = Some("a")
    /\ is_none(stored[2].name)
    /\ stored[2].output # stored[1].output
    /\ last_result = Some(stored[2].output)
    /\ previous_results = {<<"a", stored[1].output>>}

\* the in or in2 attribute names a result that was never stored
Unstored(in_) ==
    /\ is_some(in_)
    /\ unwrap(in_).tag = "FilterOutput"
    /\ StoredUnder(unwrap(in_).name) = {}

rendered == last_op.args[1]

\* C3: get_input with a name no store_result has carried so far yields no
\* output, and a Composite::render whose in or in2 is such a name returns
\* the unresolvable-input error.
C3_UnstoredNameIsError ==
    /\ pc = "live" =>
           \A n \in Names :
               StoredUnder(n) = {} => is_none(get_input(Self, Some(Input_FilterOutput(n))))
    /\ last_op.op = "render" =>
           /\ Unstored(rendered.base.in_) => ret = Err("InputSurfaceUnavailable")
           /\ (~get_input_unimplemented(rendered.base.in_) /\ Unstored(rendered.in2)) =>
                  ret = Err("InputSurfaceUnavailable")

C3_Witness ==
    /\ last_op.op = "render"
    /\ stored # <<>>
    /\ StoredUnder("a") # {}
    /\ is_none(rendered.base.in_)
    /\ rendered.in2 = Some(Input_FilterOutput("b"))
    /\ ret = Err("InputSurfaceUnavailable")

\* C4: a name carried by several store_result calls resolves to the output
\* of the latest of them, and the named results hold at most one entry for
\* a name.
C4_LatestNameWins ==
    pc = "live" =>
        \A n \in Names :
            /\ Cardinality({e \in previous_results : e[1] = n}) <= 1
            /\ StoredUnder(n) # {} =>
                   get_input(Self, Some(Input_FilterOutput(n))) = Some(LatestStoredUnder(n))

C4_Witness ==
    /\ pc = "live"
    /\ Len(stored) = 2
    /\ stored[1].name = Some("a")
    /\ stored[2].name = Some("a")
    /\ stored[1].output # stored[2].output
    /\ get_input(Self, Some(Input_FilterOutput("a"))) = Some(stored[2].output)

\* C5: into_output returns the surface of the most recent store_result,
\* and the source surface when no store_result was made.
C5_IntoOutput ==
    last_op.op = "into_output" =>
        ret = IF stored = <<>> THEN new_args.source_surface
              ELSE stored[Len(stored)].output.surface

C5_Witness ==
    /\ last_op.op = "into_output"
    /\ stored # <<>>
    /\ ret = stored[Len(stored)].output.surface
    /\ ret # new_args.source_surface

\* C6: whatever was stored, source_graphic() and get_input(SourceGraphic)
\* give the surface FilterContext::new was given.
C6_SourceFixed ==
    pc = "live" =>
        /\ source_graphic(Self) = new_args.source_surface
        /\ is_some(get_input(Self, Some(SourceGraphic)))
        /\ unwrap(get_input(Self, Some(SourceGraphic))).surface = new_args.source_surface

C6_Witness ==
    /\ pc = "live"
    /\ Len(stored) = 2
    /\ is_some(stored[1].name)
    /\ is_none(stored[2].name)
    /\ stored[1].output.surface # new_args.source_surface
    /\ stored[2].output.surface # stored[1].output.surface
    /\ unwrap(get_input(Self, Some(SourceGraphic))).surface = new_args.source_surface

\* C7: a Composite::render, failed or successful, leaves last_result and
\* the named results as they were, and get_input answers every reference
\* after it as before it.
C7_RenderStep ==
    last_op'.op = "render" =>
        /\ last_result' = last_result
        /\ previous_results' = previous_results
        /\ \A r \in References : get_input(Self', r) = get_input(Self, r)

\* C7: every step of a behaviour that is a Composite::render call leaves
\* the context as C7_RenderStep states.
C7_RenderLeavesContext == [][C7_RenderStep]_vars

C7_Witness ==
    /\ last_op.op = "render"
    /\ ret.tag = "Err"
    /\ stored # <<>>
    /\ last_result = Some(stored[Len(stored)].output)

---------------------------------------------------------------------------
(* The view-box stack during compute_bounds, under SpecBounds *)

\* the call the state records, run again from the drawing context the
\* context was constructed with
recorded_run ==
    compute_bounds_run([Self EXCEPT !.drawing_ctx = new_args.draw_ctx],
                       cb_x, cb_y, cb_width, cb_height)

pushes(d) == {i \in 1..(Len(d) - 1) : d[i + 1] = d[i] + 1}
pops(d) == {i \in 1..(Len(d) - 1) : d[i + 1] = d[i] - 1}

\* C11: every push_view_box of a compute_bounds call is followed by its
\* pop_view_box before the next push and before the return, whatever the
\* units and the declared attributes: the stack is as deep after the call
\* as before it, the drawing context is the one the call found, and the
\* stack is never more than one deeper than at the start.
C11_ViewBoxBalanced ==
    last_op.op = "compute_bounds" =>
        LET d == recorded_run.depths
            d0 == Len(new_args.draw_ctx.vb_stack)
        IN /\ drawing_ctx = new_args.draw_ctx
           /\ Len(drawing_ctx.vb_stack) = d0
           /\ d[1] = d0 /\ d[Len(d)] = d0
           /\ \A i \in 1..Len(d) : d[i] \in {d0, d0 + 1}
           /\ Cardinality(pushes(d)) = Cardinality(pops(d))
           /\ \A i \in pushes(d) : i + 1 \in pops(d)

C11_Witness ==
    /\ last_op.op = "compute_bounds"
    /\ node.filterunits = "ObjectBoundingBox"
    /\ node.primitiveunits = "ObjectBoundingBox"
    /\ cb_declared
    /\ Len(new_args.draw_ctx.vb_stack) = 1
    /\ Cardinality(pushes(recorded_run.depths)) = 2
    /\ drawing_ctx = new_args.draw_ctx

---------------------------------------------------------------------------
(* f64 arithmetic on pixel values.  A number is an exact fraction <<n, d>>
   with d > 0 in lowest terms; the rounding error of f64 is left out, the
   rounding to a byte is not. *)

RECURSIVE gcd(_, _)
gcd(a, b) == IF b = 0 THEN a ELSE gcd(b, a % b)

abs(n) == IF n < 0 THEN -n ELSE n

f64(n, d) == LET g == gcd(abs(n), d) IN <<n \div g, d \div g>>

f64_from(i) == <<i, 1>>

add(p, q) == f64(p[1] * q[2] + q[1] * p[2], p[2] * q[2])

mul(p, q) == f64(p[1] * q[1], p[2] * q[2])

div(p, q) == f64(p[1] * q[2], p[2] * q[1])

lt(p, q) == p[1] * q[2] < q[1] * p[2]

\* util::clamp
clamp(val, low, high) ==
    IF lt(val, low) THEN low ELSE IF lt(high, val) THEN high ELSE val

\* f64::round, halves away from zero
round(p) ==
    IF p[1] >= 0 THEN (2 * p[1] + p[2]) \div (2 * p[2])
    ELSE -((2 * (-p[1]) + p[2]) \div (2 * p[2]))

\* f64 as u8 for a whole number
as_u8(i) == IF i < 0 THEN 0 ELSE IF i > 255 THEN 255 ELSE i

---------------------------------------------------------------------------
(* Pixels and image surfaces.  A surface is its size, its premultiplied
   ARGB pixels by coordinate and the colour space its channels are in. *)

Pixel(r, g, b, a) == [r |-> r, g |-> g, b |-> b, a |-> a]

ImageSurface(width, height, data, space) ==
    [width |-> width, height |-> height, data |-> data, space |-> space]

\* ImageSurface::create: every pixel transparent
ImageSurface_create(width, height, space) ==
    ImageSurface(width, height,
                 [c \in (0..(width - 1)) \X (0..(height - 1)) |-> Pixel(0, 0, 0, 0)],
                 space)

get_pixel(surface, x, y) == surface.data[<<x, y>>]

\* Pixels::new(data, bounds): the coordinates of the surface inside bounds
Pixels(surface, bounds) ==
    {c \in DOMAIN surface.data :
        /\ bounds.x0 <= c[1] /\ c[1] < bounds.x1
        /\ bounds.y0 <= c[2] /\ c[2] < bounds.y1}

LINEARIZE ==
    <<
       0, 0, 0, 0, 0, 0, 0, 1, 1, 1, 1, 1, 1, 1, 1, 1,
       1, 1, 2, 2, 2, 2, 2, 2, 2, 2, 3, 3, 3, 3, 3, 3,
       4, 4, 4, 4, 4, 5, 5, 5, 5, 6, 6, 6, 6, 7, 7, 7,
       8, 8, 8, 8, 9, 9, 9, 10, 10, 10, 11, 11, 12, 12, 12, 13,
       13, 13, 14, 14, 15, 15, 16, 16, 17, 17, 17, 18, 18, 19, 19, 20,
       20, 21, 22, 22, 23, 23, 24, 24, 25, 25, 26, 27, 27, 28, 29, 29,
       30, 30, 31, 32, 32, 33, 34, 35, 35, 36, 37, 37, 38, 39, 40, 41,
       41, 42, 43, 44, 45, 45, 46, 47, 48, 49, 50, 51, 51, 52, 53, 54,
       55, 56, 57, 58, 59, 60, 61, 62, 63, 64, 65, 66, 67, 68, 69, 70,
       71, 72, 73, 74, 76, 77, 78, 79, 80, 81, 82, 84, 85, 86, 87, 88,
       90, 91, 92, 93, 95, 96, 97, 99, 100, 101, 103, 104, 105, 107, 108, 109,
       111, 112, 114, 115, 116, 118, 119, 121, 122, 124, 125, 127, 128, 130, 131, 133,
       134, 136, 138, 139, 141, 142, 144, 146, 147, 149, 151, 152, 154, 156, 157, 159,
       161, 163, 164, 166, 168, 170, 171, 173, 175, 177, 179, 181, 183, 184, 186, 188,
       190, 192, 194, 196, 198, 200, 202, 204, 206, 208, 210, 212, 214, 216, 218, 220,
       222, 224, 226, 229, 231, 233, 235, 237, 239, 242, 244, 246, 248, 250, 253, 255
    >>

UNLINEARIZE ==
    <<
       0, 13, 22, 28, 34, 38, 42, 46, 50, 53, 56, 59, 61, 64, 66, 69,
       71, 73, 75, 77, 79, 81, 83, 85, 86, 88, 90, 92, 93, 95, 96, 98,
       99, 101, 102, 104, 105, 106, 108, 109, 110, 112, 113, 114, 115, 117, 118, 119,
       120, 121, 122, 124, 125, 126, 127, 128, 129, 130, 131, 132, 133, 134, 135, 136,
       137, 138, 139, 140, 141, 142, 143, 144, 145, 146, 147, 148, 148, 149, 150, 151,
       152, 153, 154, 155, 155, 156, 157, 158, 159, 159, 160, 161, 162, 163, 163, 164,
       165, 166, 167, 167, 168, 169, 170, 170, 171, 172, 173, 173, 174, 175, 175, 176,
       177, 178, 178, 179, 180, 180, 181, 182, 182, 183, 184, 185, 185, 186, 187, 187,
       188, 189, 189, 190, 190, 191, 192, 192, 193, 194, 194, 195, 196, 196, 197, 197,
       198, 199, 199, 200, 200, 201, 202, 202, 203, 203, 204, 205, 205, 206, 206, 207,
       208, 208, 209, 209, 210, 210, 211, 212, 212, 213, 213, 214, 214, 215, 215, 216,
       216, 217, 218, 218, 219, 219, 220, 220, 221, 221, 222, 222, 223, 223, 224, 224,
       225, 226, 226, 227, 227, 228, 228, 229, 229, 230, 230, 231, 231, 232, 232, 233,
       233, 234, 234, 235, 235, 236, 236, 237, 237, 238, 238, 238, 239, 239, 240, 240,
       241, 241, 242, 242, 243, 243, 244, 244, 245, 245, 246, 246, 246, 247, 247, 248,
       248, 249, 249, 250, 250, 251, 251, 251, 252, 252, 253, 253, 254, 254, 255, 255
    >>

\* one colour channel of a pixel of alpha a > 0 through a transfer table:
\* unpremultiplied, rounded to a byte, mapped, premultiplied again
map_unpremultiplied_component(table, x, a) ==
    LET alpha == f64(a, 255)
        u == as_u8(round(div(f64_from(x), alpha)))
        t == table[u + 1]
    IN as_u8(round(mul(f64_from(t), alpha)))

map_unpremultiplied_pixel(table, pixel) ==
    IF pixel.a > 0
    THEN Pixel(map_unpremultiplied_component(table, pixel.r, pixel.a),
               map_unpremultiplied_component(table, pixel.g, pixel.a),
               map_unpremultiplied_component(table, pixel.b, pixel.a),
               pixel.a)
    ELSE Pixel(0, 0, 0, 0)

\* a new surface with the pixels inside bounds mapped, the others transparent
map_unpremultiplied_components(surface, bounds, table, space) ==
    ImageSurface(surface.width, surface.height,
                 [c \in DOMAIN surface.data |->
                     IF c \in Pixels(surface, bounds)
                     THEN map_unpremultiplied_pixel(table, surface.data[c])
                     ELSE Pixel(0, 0, 0, 0)],
                 space)

linearize_surface(surface, bounds) ==
    map_unpremultiplied_components(surface, bounds, LINEARIZE, "linear")

unlinearize_surface(surface, bounds) ==
    map_unpremultiplied_components(surface, bounds, UNLINEARIZE, "srgb")

---------------------------------------------------------------------------
(* Composite::render on pixels: the surface operations that follow the
   resolution of the two inputs *)

\* a Composite with its four coefficients
Composite_with_k(self, k1, k2, k3, k4) ==
    [self EXCEPT !.k1 = k1, !.k2 = k2, !.k3 = k3, !.k4 = k4]

\* the value k1*i1*i2 + k2*i1 + k3*i2 + k4
arithmetic_value(self, i1, i2) ==
    add(add(add(mul(mul(self.k1, i1), i2), mul(self.k2, i1)), mul(self.k3, i2)),
        self.k4)

\* the output alpha of one pixel pair, its byte wrapped instead of clamped
arithmetic_alpha_wrapped(self, pixel, pixel_2) ==
    LET i1a == div(f64_from(pixel.a), f64_from(255))
        i2a == div(f64_from(pixel_2.a), f64_from(255))
        oa == arithmetic_value(self, i1a, i2a)
    IN f64(round(mul(oa, f64_from(255))) % 256, 255)

\* the output alpha of one pixel pair, clamped to 0..1
arithmetic_alpha(self, pixel, pixel_2) ==
    LET i1a == div(f64_from(pixel.a), f64_from(255))
        i2a == div(f64_from(pixel_2.a), f64_from(255))
        oa == arithmetic_value(self, i1a, i2a)
    IN clamp(oa, f64_from(0), f64_from(1))

\* one output colour byte, multiplied by oa before it is stored
arithmetic_channel_times_oa(self, c1, c2, oa) ==
    LET i1 == div(f64_from(c1), f64_from(255))
        i2 == div(f64_from(c2), f64_from(255))
        o == clamp(arithmetic_value(self, i1, i2), f64_from(0), oa)
    IN as_u8(round(mul(mul(o, oa), f64_from(255))))

\* one output colour byte, from the channel bytes as the surfaces hold them
arithmetic_channel(self, c1, c2, oa) ==
    LET i1 == div(f64_from(c1), f64_from(255))
        i2 == div(f64_from(c2), f64_from(255))
        o == clamp(arithmetic_value(self, i1, i2), f64_from(0), oa)
    IN as_u8(round(mul(o, f64_from(255))))

\* the output pixel of one pixel pair, its colours clamped to 1
arithmetic_pixel_clamped_to_one(self, pixel, pixel_2) ==
    LET oa == arithmetic_alpha(self, pixel, pixel_2) IN
    IF lt(f64_from(0), oa)
    THEN Pixel(arithmetic_channel(self, pixel.r, pixel_2.r, f64_from(1)),
               arithmetic_channel(self, pixel.g, pixel_2.g, f64_from(1)),
               arithmetic_channel(self, pixel.b, pixel_2.b, f64_from(1)),
               as_u8(round(mul(oa, f64_from(255)))))
    ELSE Pixel(0, 0, 0, 0)

\* the output pixel of one pixel pair; with oa = 0 nothing is written
arithmetic_pixel(self, pixel, pixel_2) ==
    LET oa == arithmetic_alpha(self, pixel, pixel_2) IN
    IF lt(f64_from(0), oa)
    THEN Pixel(arithmetic_channel(self, pixel.r, pixel_2.r, oa),
               arithmetic_channel(self, pixel.g, pixel_2.g, oa),
               arithmetic_channel(self, pixel.b, pixel_2.b, oa),
               as_u8(round(mul(oa, f64_from(255)))))
    ELSE Pixel(0, 0, 0, 0)

\* the arithmetic branch writing every pixel of the surface
arithmetic_whole_surface(self, input, input_2, bounds) ==
    LET created == ImageSurface_create(input.width, input.height, input.space) IN
    [created EXCEPT !.data =
        [c \in DOMAIN created.data |->
            arithmetic_pixel(self, get_pixel(input, c[1], c[2]),
                             get_pixel(input_2, c[1], c[2]))]]

\* the arithmetic branch: a new surface of the size of the first input,
\* written inside bounds only
arithmetic(self, input, input_2, bounds) ==
    LET created == ImageSurface_create(input.width, input.height, input.space) IN
    [created EXCEPT !.data =
        [c \in DOMAIN created.data |->
            IF c \in Pixels(input, bounds)
            THEN arithmetic_pixel(self, get_pixel(input, c[1], c[2]),
                                  get_pixel(input_2, c[1], c[2]))
            ELSE created.data[c]]]

\* the Porter-Duff factors of source and destination for a cairo operator
cairo_factors(operator, sa, da) ==
    LET one == f64_from(1)
        not_sa == add(one, mul(f64_from(-1), sa))
        not_da == add(one, mul(f64_from(-1), da))
    IN CASE operator = "Over" -> <<one, not_sa>>
         [] operator = "In" -> <<da, f64_from(0)>>
         [] operator = "Out" -> <<not_da, f64_from(0)>>
         [] operator = "Atop" -> <<da, not_sa>>
         [] operator = "Xor" -> <<not_da, not_sa>>

cairo_paint_pixel(operator, s, d) ==
    LET f == cairo_factors(operator, f64(s.a, 255), f64(d.a, 255))
        ch(cs, cd) == as_u8(round(add(mul(f64_from(cs), f[1]),
                                      mul(f64_from(cd), f[2]))))
    IN Pixel(ch(s.r, d.r), ch(s.g, d.g), ch(s.b, d.b), ch(s.a, d.a))

\* cr.rectangle(bounds); cr.clip(); cr.set_source_surface(source);
\* cr.set_operator(operator); cr.paint() on the destination surface
cairo_paint(dest, source, bounds, operator) ==
    [dest EXCEPT !.data =
        [c \in DOMAIN dest.data |->
            IF c \in Pixels(dest, bounds)
            THEN cairo_paint_pixel(operator, source.data[c], dest.data[c])
            ELSE dest.data[c]]]

\* Composite::render from the linearization of the first input on.
\* built is the surface before unlinearize_surface, operands the colour
\* spaces of the two surfaces the pixels are combined from, calls the
\* surface operations in order.
Composite_render_surfaces(self, input_surface, input_2_surface, bounds) ==
    LET input == linearize_surface(input_surface, bounds)
        arith == self.operator = "Arithmetic"
        second == IF arith THEN input_2_surface
                  ELSE linearize_surface(input_2_surface, bounds)
        built == IF arith THEN arithmetic(self, input, second, bounds)
                 ELSE cairo_paint(second, input, bounds, self.operator)
    IN [result |-> Ok(FilterResult(self.base.result,
                          FilterOutput(unlinearize_surface(built, bounds), bounds))),
        built |-> built,
        operands |-> <<input.space, second.space>>,
        calls |-> <<"linearize_surface(input)">>
                  \o (IF arith THEN <<"arithmetic">>
                      ELSE <<"linearize_surface(input_2)", "paint">>)
                  \o <<"unlinearize_surface(output)">>]

---------------------------------------------------------------------------
(* Composite::render on pixels as a step: the two inputs are 2x1 surfaces
   and the bounds lie inside them *)

Coords == {<<0, 0>>, <<1, 0>>}

\* transparent, opaque, half-covered and thinly covered pixels
PixelValues == {Pixel(0, 0, 0, 0), Pixel(255, 128, 0, 255),
                Pixel(51, 102, 0, 102), Pixel(51, 0, 51, 51)}

PixelSurfaces ==
    {ImageSurface(2, 1, [c \in Coords |-> IF c[1] = 0 THEN p0 ELSE p1], "srgb") :
        p0 \in PixelValues, p1 \in PixelValues}

\* empty at the origin, empty with x0 = x1 > 0, the left pixel, the right
\* pixel, the whole surface
PixelBounds == {IRect(0, 0, 0, 0), IRect(1, 0, 1, 1), IRect(0, 0, 1, 1),
                IRect(1, 0, 2, 1), IRect(0, 0, 2, 1)}

Operators == {"Over", "In", "Out", "Atop", "Xor", "Arithmetic"}

\* k1..k4: the two identities, the product, the sum, constants above 1 and
\* below it, a negative constant, all zero and the complement of in
Coefficients ==
    {<<f64(0, 1), f64(1, 1), f64(0, 1), f64(0, 1)>>,
     <<f64(0, 1), f64(0, 1), f64(1, 1), f64(0, 1)>>,
     <<f64(1, 1), f64(0, 1), f64(0, 1), f64(0, 1)>>,
     <<f64(0, 1), f64(1, 1), f64(1, 1), f64(0, 1)>>,
     <<f64(0, 1), f64(0, 1), f64(0, 1), f64(2, 1)>>,
     <<f64(0, 1), f64(0, 1), f64(0, 1), f64(1, 2)>>,
     <<f64(0, 1), f64(1, 1), f64(0, 1), f64(-1, 2)>>,
     <<f64(0, 1), f64(0, 1), f64(0, 1), f64(0, 1)>>,
     <<f64(0, 1), f64(-1, 1), f64(0, 1), f64(1, 1)>>}

PixelComposites ==
    LET plain(op) == Composite(Primitive(None, None, None, None, None, None), None, op)
    IN {Composite_with_k(plain("Arithmetic"), k[1], k[2], k[3], k[4]) :
            k \in Coefficients}
       \cup {Composite_with_k(plain(op), f64(0, 1), f64(0, 1), f64(0, 1), f64(0, 1)) :
                op \in Operators \ {"Arithmetic"}}

RenderSurfaces(self, input_surface, input_2_surface, bounds) ==
    /\ pc = "live"
    /\ ret' = Composite_render_surfaces(self, input_surface, input_2_surface, bounds)
    /\ last_op' = Call("render_surfaces",
                       [self |-> self, input |-> input_surface,
                        input_2 |-> input_2_surface, bounds |-> bounds])
    /\ UNCHANGED <<node, source_surface, last_result, previous_results, affine,
                   paffine, drawing_ctx, new_args, stored, pc,
                   tree, context_stack>>

---------------------------------------------------------------------------
(* Lighting::render (feDiffuseLighting, feSpecularLighting) *)

\* enum Data
Diffuse(diffuse_constant) ==
    [type |-> "Diffuse", diffuse_constant |-> diffuse_constant]

Specular(specular_constant, specular_exponent) ==
    [type |-> "Specular", specular_constant |-> specular_constant,
     specular_exponent |-> specular_exponent]

\* impl Default for Lighting
Lighting_default ==
    [base |-> Primitive(None, None, None, None, None, None),
     surface_scale |-> f64_from(1),
     kernel_unit_length |-> None,
     data |-> Diffuse(f64_from(1))]

Lighting_new_diffuse == [Lighting_default EXCEPT !.data = Diffuse(f64_from(1))]

Lighting_new_specular ==
    [Lighting_default EXCEPT !.data = Specular(f64_from(1), f64_from(1))]

\* a Lighting primitive: kernel_unit_length is None or Some(<<dx, dy>>), a
\* pair of whole numbers of user units
Lighting(base, kernel_unit_length) ==
    [Lighting_default EXCEPT !.base = base,
                             !.kernel_unit_length = kernel_unit_length]

\* cairo::Matrix::transform_distance
transform_distance(m, dx, dy) == <<m.xx * dx + m.xy * dy, m.yx * dx + m.yy * dy>>

RECURSIVE rev(_)
rev(children) ==
    IF children = <<>> THEN <<>>
    ELSE Append(rev(Tail(children)), Head(children))

is_light_source(c) == c = "LightSource"

\* the light sources found before the first child of another type
RECURSIVE take_light_sources(_)
take_light_sources(children) ==
    IF children = <<>> \/ ~is_light_source(Head(children)) THEN <<>>
    ELSE <<Head(children)>> \o take_light_sources(Tail(children))

light_sources_leading(children) == take_light_sources(rev(children))

\* node.children().rev().filter(|c| c.get_type() == NodeType::LightSource)
light_sources(children) == SelectSeq(rev(children), is_light_source)

\* Iterator::next: the item and the rest
next(iter) ==
    IF iter = <<>> THEN [item |-> None, rest |-> <<>>]
    ELSE [item |-> Some(Head(iter)), rest |-> Tail(iter)]

\* the bounds of a surface scaled by 1/ox and 1/oy
scale_bounds(bounds, ox, oy) ==
    IRect(bounds.x0 \div ox, bounds.y0 \div oy,
          -((-bounds.x1) \div ox), -((-bounds.y1) \div oy))

\* SharedImageSurface::scale: the surface and the bounds, scaled
SharedImageSurface_scale(ctx, surface, bounds, ox, oy) ==
    [surface |-> new_surface(ctx, -((-surface.width) \div ox),
                             -((-surface.height) \div oy)),
     bounds |-> scale_bounds(bounds, ox, oy)]

\* the size check with a minimum of one pixel
too_small_for_one(bounds) ==
    bounds.x1 < bounds.x0 + 1 \/ bounds.y1 < bounds.y0 + 1

\* the surface is too small for normal computation
too_small(bounds) ==
    bounds.x1 < bounds.x0 + 2 \/ bounds.y1 < bounds.y0 + 2

\* one call of compute_output_pixel
compute_output_pixel(x, y, normal) == [x |-> x, y |-> y, normal |-> normal]

\* the calls when the rows and the interior run up to the right edge
computed_pixels_to_right_edge(bounds) ==
    LET x0 == bounds.x0
        y0 == bounds.y0
        x1 == bounds.x1
        y1 == bounds.y1
        xs == (x0 + 1)..(x1 - 1)
        ys == (y0 + 1)..(y1 - 2)
        row(y, normal) ==
            [i \in 1..Cardinality(xs) |-> compute_output_pixel(x0 + i, y, normal)]
        column(x, normal) ==
            [i \in 1..Cardinality(ys) |-> compute_output_pixel(x, y0 + i, normal)]
        interior ==
            [i \in 1..(Cardinality(xs) * Cardinality(ys)) |->
                compute_output_pixel(x0 + 1 + ((i - 1) % Cardinality(xs)),
                                     y0 + 1 + ((i - 1) \div Cardinality(xs)),
                                     "interior_normal")]
    IN <<compute_output_pixel(x0, y0, "top_left_normal"),
         compute_output_pixel(x1 - 1, y0, "top_right_normal"),
         compute_output_pixel(x0, y1 - 1, "bottom_left_normal"),
         compute_output_pixel(x1 - 1, y1 - 1, "bottom_right_normal")>>
       \o (IF x1 - x0 >= 3
           THEN row(y0, "top_row_normal") \o row(y1 - 1, "bottom_row_normal")
           ELSE <<>>)
       \o (IF y1 - y0 >= 3
           THEN column(x0, "left_column_normal")
                \o column(x1 - 1, "right_column_normal")
           ELSE <<>>)
       \o (IF x1 - x0 >= 3 /\ y1 - y0 >= 3 THEN interior ELSE <<>>)

\* the calls of compute_output_pixel over bounds, in the order of the code
computed_pixels(bounds) ==
    LET x0 == bounds.x0
        y0 == bounds.y0
        x1 == bounds.x1
        y1 == bounds.y1
        xs == (x0 + 1)..(x1 - 2)
        ys == (y0 + 1)..(y1 - 2)
        row(y, normal) ==
            [i \in 1..Cardinality(xs) |-> compute_output_pixel(x0 + i, y, normal)]
        column(x, normal) ==
            [i \in 1..Cardinality(ys) |-> compute_output_pixel(x, y0 + i, normal)]
        interior ==
            [i \in 1..(Cardinality(xs) * Cardinality(ys)) |->
                compute_output_pixel(x0 + 1 + ((i - 1) % Cardinality(xs)),
                                     y0 + 1 + ((i - 1) \div Cardinality(xs)),
                                     "interior_normal")]
    IN <<compute_output_pixel(x0, y0, "top_left_normal"),
         compute_output_pixel(x1 - 1, y0, "top_right_normal"),
         compute_output_pixel(x0, y1 - 1, "bottom_left_normal"),
         compute_output_pixel(x1 - 1, y1 - 1, "bottom_right_normal")>>
       \o (IF x1 - x0 >= 3
           THEN row(y0, "top_row_normal") \o row(y1 - 1, "bottom_row_normal")
           ELSE <<>>)
       \o (IF y1 - y0 >= 3
           THEN column(x0, "left_column_normal")
                \o column(x1 - 1, "right_column_normal")
           ELSE <<>>)
       \o (IF x1 - x0 >= 3 /\ y1 - y0 >= 3 THEN interior ELSE <<>>)

\* what a render leaves behind: its return value, the bounds the normals
\* are computed over once they are known, whether the output surface was
\* created, and the calls of compute_output_pixel
Rendered(result, region, created, computed) ==
    [result |-> result, region |-> region, created |-> created,
     computed |-> computed]

\* the render returning the bounds its normals were computed over
Lighting_render_normals_keeping_bounds(self, ctx, env, scale, original_bounds, input_surface, bounds) ==
    IF too_small(bounds)
    THEN Rendered(Err("LightingInputTooSmall"), Some(bounds), FALSE, <<>>)
    ELSE IF env = "create"
    THEN Rendered(Err("CairoError"), Some(bounds), FALSE, <<>>)
    ELSE IF env = "new"
    THEN Rendered(Err("CairoError"), Some(bounds), TRUE, computed_pixels(bounds))
    ELSE IF is_some(scale) /\ env = "scale_to"
    THEN Rendered(Err("CairoError"), Some(bounds), TRUE, computed_pixels(bounds))
    ELSE Rendered(Ok(FilterResult(self.base.result,
                        FilterOutput(IF is_some(scale)
                                     THEN new_surface(ctx, ctx.source_surface.width,
                                                      ctx.source_surface.height)
                                     ELSE new_surface(ctx, input_surface.width,
                                                      input_surface.height),
                                     bounds))),
                  Some(bounds), TRUE, computed_pixels(bounds))

\* Lighting::render from the size check on: bounds are the bounds the
\* normals are computed over, input_surface the surface they are read from
Lighting_render_normals(self, ctx, env, scale, original_bounds, input_surface, bounds) ==
    IF too_small(bounds)
    THEN Rendered(Err("LightingInputTooSmall"), Some(bounds), FALSE, <<>>)
    ELSE IF env = "create"
    THEN Rendered(Err("CairoError"), Some(bounds), FALSE, <<>>)
    ELSE IF env = "new"
    THEN Rendered(Err("CairoError"), Some(bounds), TRUE, computed_pixels(bounds))
    ELSE IF is_some(scale) /\ env = "scale_to"
    THEN Rendered(Err("CairoError"), Some(bounds), TRUE, computed_pixels(bounds))
    ELSE Rendered(Ok(FilterResult(self.base.result,
                        FilterOutput(IF is_some(scale)
                                     THEN new_surface(ctx, ctx.source_surface.width,
                                                      ctx.source_surface.height)
                                     ELSE new_surface(ctx, input_surface.width,
                                                      input_surface.height),
                                     IF is_some(scale) THEN original_bounds
                                     ELSE bounds))),
                  Some(bounds), TRUE, computed_pixels(bounds))

\* Lighting::render from the resampling on: with a scale the input surface
\* and the bounds are replaced by the resampled ones
Lighting_render_scaled(self, ctx, env, scale, original_bounds, input_surface) ==
    IF is_none(scale)
    THEN Lighting_render_normals(self, ctx, env, scale, original_bounds,
                                 input_surface, original_bounds)
    ELSE IF env = "scale"
    THEN Rendered(Err("CairoError"), None, FALSE, <<>>)
    ELSE Lighting_render_normals(
             self, ctx, env, scale, original_bounds,
             SharedImageSurface_scale(ctx, input_surface, original_bounds,
                                      unwrap(scale)[1], unwrap(scale)[2]).surface,
             scale_bounds(original_bounds, unwrap(scale)[1], unwrap(scale)[2]))

\* the render with the size tested first, on the bounds as computed
Lighting_render_lit_size_first(self, children, ctx, env, input, original_bounds) ==
    IF input.tag = "Err" THEN Rendered(input, None, FALSE, <<>>)
    ELSE IF too_small(original_bounds)
    THEN Rendered(Err("LightingInputTooSmall"), Some(original_bounds), FALSE, <<>>)
    ELSE IF is_none(next(light_sources(children)).item)
            \/ is_some(next(next(light_sources(children)).rest).item)
    THEN Rendered(Err("InvalidLightSourceCount"), None, FALSE, <<>>)
    ELSE Lighting_render_scaled(
             self, ctx, env,
             IF is_some(self.kernel_unit_length)
             THEN Some(transform_distance(ctx.paffine,
                                          unwrap(self.kernel_unit_length)[1],
                                          unwrap(self.kernel_unit_length)[2]))
             ELSE None,
             original_bounds, unwrap(input.result))

\* Lighting::render once the input and the bounds are computed: the light
\* sources are counted before anything is resampled
Lighting_render_lit(self, children, ctx, env, input, original_bounds) ==
    IF input.tag = "Err" THEN Rendered(input, None, FALSE, <<>>)
    ELSE IF is_none(next(light_sources(children)).item)
            \/ is_some(next(next(light_sources(children)).rest).item)
    THEN Rendered(Err("InvalidLightSourceCount"), None, FALSE, <<>>)
    ELSE Lighting_render_scaled(
             self, ctx, env,
             IF is_some(self.kernel_unit_length)
             THEN Some(transform_distance(ctx.paffine,
                                          unwrap(self.kernel_unit_length)[1],
                                          unwrap(self.kernel_unit_length)[2]))
             ELSE None,
             original_bounds, unwrap(input.result))

\* Lighting::render on a node with the given children.  env tells which of
\* the surface operations of the graphics library fails, if any: "scale",
\* "create", "new", "scale_to" or "none".
Lighting_render(self, children, ctx, env) ==
    Lighting_render_lit(self, children, ctx, env,
                        get_surface(base_get_input(self.base, ctx)),
                        get_bounds(self.base, ctx))

---------------------------------------------------------------------------
(* The render specification: one render of one primitive, a Lighting on a
   fresh context whose filter region is the whole source surface or a
   Composite on two resolved input surfaces *)

NodeTypes == {"LightSource", "Other"}

\* the children of a lighting node, in document order
Children == UNION {[1..n -> NodeTypes] : n \in 0..MaxChildren}

\* undeclared, or one to two user units
KernelUnitLengths == {None, Some(<<2, 2>>), Some(<<1, 2>>)}

\* the subregion of a lighting primitive: from the left edge or one pixel
\* in; the whole width, empty, or one to three pixels wide; the whole
\* height or one to two pixels high
LightingXs == {None, Some(H(SubPixel, "Default"))}
LightingWidths == {None} \cup {Some(H(w * SubPixel, "Default")) : w \in 0..(MaxPx - 1)}
LightingHeights == {None} \cup {Some(V(h * SubPixel, "Default")) : h \in 1..(MaxPx - 2)}

Lightings ==
    {Lighting(Primitive(in_, None, x, None, width, height), k) :
        in_ \in {None, Some(Input_FilterOutput("a"))}, x \in LightingXs,
        width \in LightingWidths, height \in LightingHeights,
        k \in KernelUnitLengths}

LightingEnvs == {"none", "scale", "create", "new", "scale_to"}

InitRender ==
    Constructed(NodeFilter("UserSpaceOnUse", "UserSpaceOnUse", H(0, "Default"),
                           V(0, "Default"), H(MaxPx * SubPixel, "Default"),
                           V((MaxPx - 1) * SubPixel, "Default")),
                SourceSurface, DrawingCtx(Rectangle(0, 0, MaxPx, MaxPx - 1), identity))

LightingRender(self, children, env) ==
    /\ pc = "live"
    /\ ret' = Lighting_render(self, children, Self, env)
    /\ last_op' = Call("lighting_render",
                       [self |-> self, children |-> children, env |-> env])
    /\ UNCHANGED <<node, source_surface, last_result, previous_results, affine,
                   paffine, drawing_ctx, new_args, stored, pc,
                   tree, context_stack>>

\* each behaviour renders once
NextRender ==
    /\ last_op.op = "new"
    /\ \/ \E self \in Lightings, children \in Children, env \in LightingEnvs :
              LightingRender(self, children, env)
       \/ \E self \in PixelComposites, a \in PixelSurfaces, b \in PixelSurfaces,
             bounds \in PixelBounds : RenderSurfaces(self, a, b, bounds)

SpecRender == InitRender /\ [][NextRender]_vars

\* the arguments of the render the state records
rs_self == last_op.args.self
rs_input == last_op.args.input
rs_input_2 == last_op.args.input_2
rs_bounds == last_op.args.bounds
rs_output == unwrap(ret.result.result).output.surface

lr_self == last_op.args.self
lr_children == last_op.args.children
lr_env == last_op.args.env
lr_bounds == get_bounds(lr_self.base, Self)
lr_width == unwrap(ret.region).x1 - unwrap(ret.region).x0
lr_height == unwrap(ret.region).y1 - unwrap(ret.region).y0

---------------------------------------------------------------------------
(* Rendering over empty bounds, under SpecRender *)

is_transparent(pixel) == pixel = Pixel(0, 0, 0, 0)

no_visible_output(surface) == \A c \in DOMAIN surface.data : is_transparent(surface.data[c])

composite_on_empty_bounds ==
    last_op.op = "render_surfaces" /\ irect_is_empty(rs_bounds)

\* a Lighting::render whose bounds are empty, whose input resolves, whose
\* node has one light source and whose graphics library does not fail
lighting_on_empty_bounds ==
    /\ last_op.op = "lighting_render"
    /\ irect_is_empty(lr_bounds)
    /\ lr_self.base.in_ = None
    /\ Len(light_sources(lr_children)) = 1
    /\ lr_env = "none"

---------------------------------------------------------------------------
(* The colour spaces Composite::render combines, under SpecRender *)

positions(calls, call) == {i \in 1..Len(calls) : calls[i] = call}

blends(calls) == positions(calls, "arithmetic") \cup positions(calls, "paint")

\* C13: Composite::render linearizes in and in2 before the arithmetic or
\* the painting that combines them, whatever the operator, and unlinearizes
\* the result once: wherever a pixel is combined, the two surfaces it is
\* combined from are both linear.
C13_BothInputsLinearized ==
    (last_op.op = "render_surfaces" /\ Pixels(rs_input, rs_bounds) # {}) =>
        /\ ret.operands = <<"linear", "linear">>
        /\ \A b \in blends(ret.calls) :
               /\ \E i \in positions(ret.calls, "linearize_surface(input)") : i < b
               /\ \E i \in positions(ret.calls, "linearize_surface(input_2)") : i < b
        /\ Cardinality(positions(ret.calls, "unlinearize_surface(output)")) = 1

---------------------------------------------------------------------------
(* The identities of arithmetic compositing, under SpecRender *)

\* a pixel linearized and unlinearized again
round_trip(pixel) ==
    map_unpremultiplied_pixel(UNLINEARIZE, map_unpremultiplied_pixel(LINEARIZE, pixel))

has_coefficients(self, k1, k2, k3, k4) ==
    /\ self.operator = "Arithmetic"
    /\ <<self.k1, self.k2, self.k3, self.k4>>
           = <<f64_from(k1), f64_from(k2), f64_from(k3), f64_from(k4)>>

\* k = (0, 1, 0, 0) returns in, up to the round trip through linear light
returns_input ==
    (last_op.op = "render_surfaces" /\ has_coefficients(rs_self, 0, 1, 0, 0)) =>
        \A c \in Pixels(rs_input, rs_bounds) :
            rs_output.data[c] = round_trip(rs_input.data[c])

\* k = (0, 0, 1, 0) returns in2, up to the round trip through linear light
returns_input_2 ==
    (last_op.op = "render_surfaces" /\ has_coefficients(rs_self, 0, 0, 1, 0)) =>
        \A c \in Pixels(rs_input, rs_bounds) :
            rs_output.data[c] = round_trip(rs_input_2.data[c])

\* C14: inside the bounds, arithmetic compositing with k = (0, 1, 0, 0)
\* returns the pixels of in and with k = (0, 0, 1, 0) those of in2, a
\* linearization followed by its inverse counting as no change.
C14_ArithmeticIdentities == returns_input /\ returns_input_2

---------------------------------------------------------------------------
(* The pixels of arithmetic compositing, under SpecRender *)

is_arithmetic == last_op.op = "render_surfaces" /\ rs_self.operator = "Arithmetic"

\* the pixels the loop visits
rs_pixels == Pixels(rs_input, rs_bounds)

\* k1*v1*v2 + k2*v1 + k3*v2 + k4 for the coefficients of the render
k_of(v1, v2) ==
    add(add(mul(rs_self.k1, mul(v1, v2)), mul(rs_self.k2, v1)),
        add(mul(rs_self.k3, v2), rs_self.k4))

\* clamp(k1*a1*a2 + k2*a1 + k3*a2 + k4, 0, 1) for the alphas at c
expected_alpha(c) ==
    LET v == k_of(f64(rs_input.data[c].a, 255), f64(rs_input_2.data[c].a, 255))
    IN IF lt(v, f64_from(0)) THEN f64_from(0)
       ELSE IF lt(f64_from(1), v) THEN f64_from(1)
       ELSE v

is_opaque(pixel) == pixel.a = 255

\* C15: in arithmetic compositing the alpha byte of every output pixel
\* inside the bounds is clamp(k1*a1*a2 + k2*a1 + k3*a2 + k4, 0, 1) times
\* 255, rounded, a value of 0..255 that does not wrap; with two opaque
\* inputs and k4 = 2 it is 255.
C15_OutputAlpha ==
    is_arithmetic =>
        \A c \in rs_pixels :
            /\ rs_output.data[c].a = round(mul(expected_alpha(c), f64_from(255)))
            /\ rs_output.data[c].a \in 0..255
            /\ (/\ rs_self.k4 = f64_from(2)
                /\ is_opaque(rs_input.data[c])
                /\ is_opaque(rs_input_2.data[c])) => rs_output.data[c].a = 255

C15_Witness ==
    /\ is_arithmetic
    /\ has_coefficients(rs_self, 0, 0, 0, 2)
    /\ \E c \in rs_pixels :
           /\ is_opaque(rs_input.data[c])
           /\ is_opaque(rs_input_2.data[c])
           /\ rs_output.data[c].a = 255


\* the pixels the loop reads at c: in linearized, in2 as it is stored
loop_pixel(c) == linearize_surface(rs_input, rs_bounds).data[c]
loop_pixel_2(c) == rs_input_2.data[c]

channels(pixel) == <<pixel.r, pixel.g, pixel.b>>

\* a channel byte without its alpha, 0..1; 0 for a transparent pixel
unpremultiplied(channel, alpha) ==
    IF alpha = 0 THEN f64_from(0) ELSE f64(channel, alpha)

within(v, low, high) ==
    IF lt(v, low) THEN low ELSE IF lt(high, v) THEN high ELSE v

\* C16 as stated: with oa > 0 each colour byte of the surface the
\* arithmetic builds is clamp(k1*u1*u2 + k2*u1 + k3*u2 + k4, 0, oa) for the
\* unpremultiplied channels u1 and u2, multiplied by oa and scaled to a byte.
C16_Original ==
    is_arithmetic =>
        \A c \in rs_pixels :
            lt(f64_from(0), expected_alpha(c)) =>
                \A ch \in 1..3 :
                    LET oa == expected_alpha(c)
                        u1 == unpremultiplied(channels(loop_pixel(c))[ch],
                                              loop_pixel(c).a)
                        u2 == unpremultiplied(channels(loop_pixel_2(c))[ch],
                                              loop_pixel_2(c).a)
                        o == within(k_of(u1, u2), f64_from(0), oa)
                    IN channels(ret.built.data[c])[ch]
                           = round(mul(mul(o, oa), f64_from(255)))

\* C16, amended: with oa > 0 each colour byte of the surface the
\* arithmetic builds is clamp(k1*i1*i2 + k2*i1 + k3*i2 + k4, 0, oa) times
\* 255, rounded, where i1 and i2 are the premultiplied channel bytes of the
\* two pixels divided by 255; the byte is stored as it is, which the clamp
\* to oa makes a premultiplied value.
C16_PremultipliedChannels ==
    is_arithmetic =>
        \A c \in rs_pixels :
            lt(f64_from(0), expected_alpha(c)) =>
                \A ch \in 1..3 :
                    LET oa == expected_alpha(c)
                        i1 == f64(channels(loop_pixel(c))[ch], 255)
                        i2 == f64(channels(loop_pixel_2(c))[ch], 255)
                        o == within(k_of(i1, i2), f64_from(0), oa)
                    IN channels(ret.built.data[c])[ch]
                           = round(mul(o, f64_from(255)))

\* a pixel with 0 < oa < 1 and a colour channel that is not 0
C16_Witness ==
    /\ is_arithmetic
    /\ \E c \in rs_pixels :
           /\ lt(f64_from(0), expected_alpha(c))
           /\ lt(expected_alpha(c), f64_from(1))
           /\ ret.built.data[c].r > 0
           /\ loop_pixel(c).a \in 1..254
           /\ loop_pixel_2(c).a \in 1..254


is_premultiplied(pixel) ==
    pixel.r <= pixel.a /\ pixel.g <= pixel.a /\ pixel.b <= pixel.a

\* C17: in the surface the arithmetic branch builds, no colour byte of a
\* pixel exceeds its alpha byte, and a pixel outside the bounds or with
\* oa = 0 has its four bytes 0.
C17_ValidPremultiplied ==
    is_arithmetic =>
        \A c \in DOMAIN ret.built.data :
            /\ is_premultiplied(ret.built.data[c])
            /\ c \notin rs_pixels => is_transparent(ret.built.data[c])
            /\ (c \in rs_pixels /\ expected_alpha(c) = f64_from(0)) =>
                   is_transparent(ret.built.data[c])

\* the clamp to oa at work on one pixel, oa = 0 on a pixel whose inputs are
\* visible, and a visible input pixel outside the bounds
C17_Witness ==
    /\ is_arithmetic
    /\ \E c \in rs_pixels :
           /\ lt(expected_alpha(c),
                 k_of(f64(loop_pixel(c).r, 255), f64(loop_pixel_2(c).r, 255)))
           /\ ret.built.data[c].r = ret.built.data[c].a
           /\ ret.built.data[c].a > 0
    /\ \E c \in DOMAIN ret.built.data \ rs_pixels :
           /\ ~is_transparent(rs_input.data[c])
           /\ is_transparent(ret.built.data[c])

---------------------------------------------------------------------------
(* Composite::set_atts and the parsing of its attributes *)

\* Composite::new
Composite_new ==
    Composite_with_k(Composite(Primitive(None, None, None, None, None, None),
                               None, "Over"),
                     f64_from(0), f64_from(0), f64_from(0), f64_from(0))

\* Operator::parse with every string taken for a keyword
Operator_parse_lenient(s) ==
    CASE s = "over" -> Ok("Over")
      [] s = "in" -> Ok("In")
      [] s = "out" -> Ok("Out")
      [] s = "atop" -> Ok("Atop")
      [] s = "xor" -> Ok("Xor")
      [] s = "arithmetic" -> Ok("Arithmetic")
      [] OTHER -> Ok("Over")

\* impl Parse for Operator
Operator_parse(s) ==
    CASE s = "over" -> Ok("Over")
      [] s = "in" -> Ok("In")
      [] s = "out" -> Ok("Out")
      [] s = "atop" -> Ok("Atop")
      [] s = "xor" -> Ok("Xor")
      [] s = "arithmetic" -> Ok("Arithmetic")
      [] OTHER -> Err("AttributeError::Value")

\* parsers::number, on the number strings of the model
parsers_number(value) ==
    CASE value = "0" -> Ok(f64_from(0))
      [] value = "1" -> Ok(f64_from(1))
      [] value = "-1" -> Ok(f64_from(-1))
      [] value = "0.5" -> Ok(f64(1, 2))
      [] value = "-0.5" -> Ok(f64(-1, 2))
      [] value = "128" -> Ok(f64_from(128))
      [] value = "128.5" -> Ok(f64(257, 2))
      [] OTHER -> Err("ParseError")

\* parsers::number_optional_number, on the strings of the model: a pair of
\* whole numbers, the second equal to the first when it is left out
number_optional_number(value) ==
    CASE value = "2" -> Ok(<<2, 2>>)
      [] value = "1 2" -> Ok(<<1, 2>>)
      [] value = "0 1" -> Ok(<<0, 1>>)
      [] value = "1 0" -> Ok(<<1, 0>>)
      [] value = "-1 1" -> Ok(<<-1, 1>>)
      [] OTHER -> Err("ParseError")

\* one iteration of the loop over the property bag: the node after the
\* attribute, or the error of the attribute
set_att(self, attr, value) ==
    CASE attr = "operator" ->
            LET r == Operator_parse(value) IN
            IF r.tag = "Ok" THEN Ok([self EXCEPT !.operator = unwrap(r.result)]) ELSE r
      [] attr = "k1" ->
            LET r == parsers_number(value) IN
            IF r.tag = "Ok" THEN Ok([self EXCEPT !.k1 = unwrap(r.result)]) ELSE r
      [] attr = "k4" ->
            LET r == parsers_number(value) IN
            IF r.tag = "Ok" THEN Ok([self EXCEPT !.k4 = unwrap(r.result)]) ELSE r
      [] OTHER -> Ok(self)

\* the loop over the property bag: it returns at the first error and keeps
\* what the attributes before it have set
RECURSIVE set_atts_loop(_, _)
set_atts_loop(self, pbag) ==
    IF pbag = <<>> THEN [result |-> Ok(<<>>), self |-> self]
    ELSE LET r == set_att(self, Head(pbag)[1], Head(pbag)[2]) IN
         IF r.tag = "Ok" THEN set_atts_loop(unwrap(r.result), Tail(pbag))
         ELSE [result |-> r, self |-> self]

\* Composite::set_atts.  base tells whether PrimitiveWithInput::set_atts
\* succeeds.
Composite_set_atts(self, base, pbag) ==
    IF ~base THEN [result |-> Err("NodeError"), self |-> self]
    ELSE set_atts_loop(self, pbag)

---------------------------------------------------------------------------
(* Lighting::set_atts *)

\* and_then of a parsed value: the value when the check accepts it, a value
\* error when it does not, the parse error when there is no value
and_then(r, accepted) ==
    IF r.tag = "Err" THEN Err("NodeError::parse_error")
    ELSE IF accepted THEN r
    ELSE Err("NodeError::value_error")

\* one iteration of the first loop: surfaceScale and kernelUnitLength
set_common_att(self, attr, value) ==
    CASE attr = "surfaceScale" ->
            LET r == parsers_number(value) IN
            IF r.tag = "Ok" THEN Ok([self EXCEPT !.surface_scale = unwrap(r.result)])
            ELSE Err("NodeError::parse_error")
      [] attr = "kernelUnitLength" ->
            LET p == number_optional_number(value)
                r == and_then(p, p.tag = "Ok" /\ unwrap(p.result)[1] > 0
                                              /\ unwrap(p.result)[2] > 0)
            IN  IF r.tag = "Ok"
                THEN Ok([self EXCEPT !.kernel_unit_length = Some(unwrap(r.result))])
                ELSE r
      [] OTHER -> Ok(self)

\* the second loop with an exponent accepted from 0 on
set_data_att_from_zero(self, attr, value) ==
    CASE self.data.type = "Diffuse" /\ attr = "diffuseConstant" ->
            LET p == parsers_number(value)
                r == and_then(p, p.tag = "Ok" /\ ~lt(unwrap(p.result), f64_from(0)))
            IN  IF r.tag = "Ok"
                THEN Ok([self EXCEPT !.data.diffuse_constant = unwrap(r.result)])
                ELSE r
      [] self.data.type = "Specular" /\ attr = "specularConstant" ->
            LET p == parsers_number(value)
                r == and_then(p, p.tag = "Ok" /\ ~lt(unwrap(p.result), f64_from(0)))
            IN  IF r.tag = "Ok"
                THEN Ok([self EXCEPT !.data.specular_constant = unwrap(r.result)])
                ELSE r
      [] self.data.type = "Specular" /\ attr = "specularExponent" ->
            LET p == parsers_number(value)
                r == and_then(p, p.tag = "Ok" /\ ~lt(unwrap(p.result), f64_from(0))
                                              /\ ~lt(f64_from(128), unwrap(p.result)))
            IN  IF r.tag = "Ok"
                THEN Ok([self EXCEPT !.data.specular_exponent = unwrap(r.result)])
                ELSE r
      [] OTHER -> Ok(self)

\* one iteration of the second loop: the attributes of the node's Data
set_data_att(self, attr, value) ==
    CASE self.data.type = "Diffuse" /\ attr = "diffuseConstant" ->
            LET p == parsers_number(value)
                r == and_then(p, p.tag = "Ok" /\ ~lt(unwrap(p.result), f64_from(0)))
            IN  IF r.tag = "Ok"
                THEN Ok([self EXCEPT !.data.diffuse_constant = unwrap(r.result)])
                ELSE r
      [] self.data.type = "Specular" /\ attr = "specularConstant" ->
            LET p == parsers_number(value)
                r == and_then(p, p.tag = "Ok" /\ ~lt(unwrap(p.result), f64_from(0)))
            IN  IF r.tag = "Ok"
                THEN Ok([self EXCEPT !.data.specular_constant = unwrap(r.result)])
                ELSE r
      [] self.data.type = "Specular" /\ attr = "specularExponent" ->
            LET p == parsers_number(value)
                r == and_then(p, p.tag = "Ok" /\ ~lt(unwrap(p.result), f64_from(1))
                                              /\ ~lt(f64_from(128), unwrap(p.result)))
            IN  IF r.tag = "Ok"
                THEN Ok([self EXCEPT !.data.specular_exponent = unwrap(r.result)])
                ELSE r
      [] OTHER -> Ok(self)

\* the two loops over the property bag: each returns at its first error
RECURSIVE set_common_atts(_, _)
set_common_atts(self, pbag) ==
    IF pbag = <<>> THEN [result |-> Ok(<<>>), self |-> self]
    ELSE LET r == set_common_att(self, Head(pbag)[1], Head(pbag)[2]) IN
         IF r.tag = "Ok" THEN set_common_atts(unwrap(r.result), Tail(pbag))
         ELSE [result |-> r, self |-> self]

RECURSIVE set_data_atts(_, _)
set_data_atts(self, pbag) ==
    IF pbag = <<>> THEN [result |-> Ok(<<>>), self |-> self]
    ELSE LET r == set_data_att(self, Head(pbag)[1], Head(pbag)[2]) IN
         IF r.tag = "Ok" THEN set_data_atts(unwrap(r.result), Tail(pbag))
         ELSE [result |-> r, self |-> self]

\* Lighting::set_atts.  base tells whether PrimitiveWithInput::set_atts
\* succeeds.
Lighting_set_atts(self, base, pbag) ==
    IF ~base THEN [result |-> Err("NodeError"), self |-> self]
    ELSE IF set_common_atts(self, pbag).result.tag = "Err"
    THEN set_common_atts(self, pbag)
    ELSE set_data_atts(set_common_atts(self, pbag).self, pbag)

---------------------------------------------------------------------------
(* The attribute specification: a new Composite or a new Lighting is given
   its attributes and, when they were accepted, renders *)

OperatorValues == {"over", "in", "out", "atop", "xor", "arithmetic",
                   "Over", "lighter", "", "over "}

Atts == ({"operator"} \X OperatorValues)
            \cup ({"k1", "k4"} \X {"1", "x"})
            \cup {<<"result", "a">>}

PropertyBags == UNION {[1..n -> Atts] : n \in 0..MaxAtts}

CompositeSetAtts(base, pbag) ==
    /\ pc = "live"
    /\ last_op.op = "new"
    /\ ret' = Composite_set_atts(Composite_new, base, pbag)
    /\ last_op' = Call("set_atts", [base |-> base, pbag |-> pbag])
    /\ UNCHANGED <<node, source_surface, last_result, previous_results, affine,
                   paffine, drawing_ctx, new_args, stored, pc,
                   tree, context_stack>>

\* the render of the node whose attributes were accepted
RenderConfigured(input_surface, input_2_surface, bounds) ==
    /\ pc = "live"
    /\ last_op.op = "set_atts"
    /\ ret.result.tag = "Ok"
    /\ ret' = Composite_render_surfaces(ret.self, input_surface, input_2_surface,
                                        bounds)
    /\ last_op' = Call("render_configured",
                       [self |-> ret.self, input |-> input_surface,
                        input_2 |-> input_2_surface, bounds |-> bounds])
    /\ UNCHANGED <<node, source_surface, last_result, previous_results, affine,
                   paffine, drawing_ctx, new_args, stored, pc,
                   tree, context_stack>>

\* the number strings given to the attributes of a lighting node
LightingNumbers == {"-1", "-0.5", "0", "0.5", "1", "128", "128.5", "x"}

LightingAtts ==
    ({"diffuseConstant", "specularConstant", "specularExponent"} \X LightingNumbers)
        \cup ({"kernelUnitLength"} \X {"2", "1 2", "0 1", "1 0", "-1 1", "x"})
        \cup ({"surfaceScale"} \X {"0.5", "x"})

LightingPropertyBags == UNION {[1..n -> LightingAtts] : n \in 0..MaxAtts}

LightingSetAtts(self, base, pbag) ==
    /\ pc = "live"
    /\ last_op.op = "new"
    /\ ret' = Lighting_set_atts(self, base, pbag)
    /\ last_op' = Call("lighting_set_atts",
                       [self |-> self, base |-> base, pbag |-> pbag])
    /\ UNCHANGED <<node, source_surface, last_result, previous_results, affine,
                   paffine, drawing_ctx, new_args, stored, pc,
                   tree, context_stack>>

\* the render of the lighting node whose attributes were accepted
LightingRenderConfigured(children, env) ==
    /\ pc = "live"
    /\ last_op.op = "lighting_set_atts"
    /\ ret.result.tag = "Ok"
    /\ ret' = Lighting_render(ret.self, children, Self, env)
    /\ last_op' = Call("lighting_render_configured",
                       [self |-> ret.self, children |-> children, env |-> env])
    /\ UNCHANGED <<node, source_surface, last_result, previous_results, affine,
                   paffine, drawing_ctx, new_args, stored, pc,
                   tree, context_stack>>

\* a node is given its attributes once, when it is created
NextAtts ==
    \/ /\ last_op.op = "new"
       /\ \E base \in BOOLEAN, pbag \in PropertyBags : CompositeSetAtts(base, pbag)
    \/ \E a \in PixelSurfaces, bounds \in {IRect(0, 0, 2, 1)} :
           RenderConfigured(a, a, bounds)
    \/ /\ last_op.op = "new"
       /\ \E self \in {Lighting_new_diffuse, Lighting_new_specular},
             base \in BOOLEAN, pbag \in LightingPropertyBags :
              LightingSetAtts(self, base, pbag)
    \/ \E env \in {"none"} : LightingRenderConfigured(<<"LightSource">>, env)

SpecAtts == InitRender /\ [][NextAtts]_vars

---------------------------------------------------------------------------
(* The operator attribute, under SpecAtts *)

Keywords == {"over", "in", "out", "atop", "xor", "arithmetic"}

sa_pbag == last_op.args.pbag

\* the attributes of the bag that a new Composite does not accept
rejected(pbag) ==
    {i \in 1..Len(pbag) : set_att(Composite_new, pbag[i][1], pbag[i][2]).tag = "Err"}

\* the first attribute that is not accepted is an operator
operator_is_first_rejected(pbag) ==
    \E i \in rejected(pbag) :
        /\ pbag[i][1] = "operator"
        /\ \A j \in rejected(pbag) : i <= j

\* C18: Operator::parse accepts the six keywords over, in, out, atop, xor
\* and arithmetic and no other string, and gives each its own Operator; a
\* bag with any other operator value makes set_atts fail, with a value
\* error when that attribute is the first to be rejected, so the operator
\* of a node is always one of the six and a render of a node whose
\* attributes were accepted does not fail.
C18_OperatorParsing ==
    /\ \A s \in OperatorValues : Operator_parse(s).tag = "Ok" <=> s \in Keywords
    /\ \A s \in Keywords, t \in Keywords :
           s # t => Operator_parse(s) # Operator_parse(t)
    /\ {unwrap(Operator_parse(s).result) : s \in Keywords} = Operators
    /\ last_op.op = "set_atts" =>
           /\ (\E i \in 1..Len(sa_pbag) :
                   sa_pbag[i][1] = "operator" /\ sa_pbag[i][2] \notin Keywords)
                  => ret.result.tag = "Err"
           /\ (last_op.args.base /\ operator_is_first_rejected(sa_pbag))
                  => ret.result = Err("AttributeError::Value")
           /\ ret.self.operator \in Operators
    /\ last_op.op = "render_configured" =>
           /\ last_op.args.self.operator \in Operators
           /\ ret.result.tag = "Ok"

\* an accepted operator followed by a rejected one
C18_Witness ==
    /\ last_op.op = "set_atts"
    /\ last_op.args.base
    /\ sa_pbag = <<<<"operator", "arithmetic">>, <<"operator", "lighter">>>>
    /\ ret.result = Err("AttributeError::Value")
    /\ ret.self.operator = "Arithmetic"

---------------------------------------------------------------------------
(* The failures of Lighting::render, under SpecRender *)

is_lighting == last_op.op = "lighting_render"

light_source_count(children) ==
    Cardinality({i \in 1..Len(children) : children[i] = "LightSource"})

\* the input of the render resolves
lr_input_resolves ==
    get_surface(base_get_input(lr_self.base, Self)).tag = "Ok"

\* C19: a Lighting::render whose input has resolved fails with
\* InvalidLightSourceCount exactly when the node does not have one
\* LightSource child, wherever the light sources stand among the other
\* children; no render fails with that error on a node with one.
C19_LightSourceCount ==
    is_lighting =>
        /\ ret.result = Err("InvalidLightSourceCount")
               => light_source_count(lr_children) # 1
        /\ lr_input_resolves =>
               (ret.result = Err("InvalidLightSourceCount")
                    <=> light_source_count(lr_children) # 1)

\* two light sources with another child between them
C19_Witness ==
    /\ is_lighting
    /\ lr_input_resolves
    /\ lr_children = <<"LightSource", "Other", "LightSource">>
    /\ ret.result = Err("InvalidLightSourceCount")

\* the render has come to the size check: its input resolved, one light
\* source was found and the resampling, if any, did not fail
lr_size_checked ==
    /\ lr_input_resolves
    /\ light_source_count(lr_children) = 1
    /\ ~(is_some(lr_self.kernel_unit_length) /\ lr_env = "scale")

corner_normals ==
    {"top_left_normal", "top_right_normal", "bottom_left_normal",
     "bottom_right_normal"}

\* C20: a Lighting::render that comes to the size check fails with
\* LightingInputTooSmall exactly when the bounds it computes normals over
\* are less than 2 pixels wide or less than 2 pixels high, and no render
\* fails so on bounds of 2x2 or more; on 2x2 bounds, when no surface
\* operation fails, it succeeds after four calls of compute_output_pixel,
\* one for each corner, each with its corner normal.
C20_InputTooSmall ==
    is_lighting =>
        /\ lr_size_checked <=> is_some(ret.region)
        /\ (lr_size_checked /\ is_none(lr_self.kernel_unit_length))
               => unwrap(ret.region) = lr_bounds
        /\ is_some(ret.region) =>
               (ret.result = Err("LightingInputTooSmall")
                    <=> (lr_width < 2 \/ lr_height < 2))
        /\ is_none(ret.region) => ret.result # Err("LightingInputTooSmall")
        /\ (is_some(ret.region) /\ lr_width = 2 /\ lr_height = 2 /\ lr_env = "none") =>
               /\ ret.result.tag = "Ok"
               /\ Len(ret.computed) = 4
               /\ {p.normal : p \in {ret.computed[i] : i \in 1..4}} = corner_normals
               /\ {<<p.x, p.y>> : p \in {ret.computed[i] : i \in 1..4}}
                      = {<<x, y>> : x \in {unwrap(ret.region).x0, unwrap(ret.region).x0 + 1},
                                    y \in {unwrap(ret.region).y0, unwrap(ret.region).y0 + 1}}

\* a render on 2x2 bounds
C20_Witness ==
    /\ is_lighting
    /\ is_none(lr_self.kernel_unit_length)
    /\ lr_bounds = IRect(1, 0, 3, 2)
    /\ ret.result.tag = "Ok"
    /\ Len(ret.computed) = 4

---------------------------------------------------------------------------
(* The pixels Lighting::render computes, under SpecRender *)

\* the render has created its output surface and run the pixel loops
lr_computed == is_lighting /\ ret.created

\* the calls of compute_output_pixel made for the pixel at x, y
calls_at(x, y) ==
    {i \in 1..Len(ret.computed) : ret.computed[i].x = x /\ ret.computed[i].y = y}

\* the kernel of a position in bounds of at least 2x2
kernel_at(bounds, x, y) ==
    LET left == x = bounds.x0
        right == x = bounds.x1 - 1
        top == y = bounds.y0
        bottom == y = bounds.y1 - 1
    IN  IF top /\ left THEN "top_left_normal"
        ELSE IF top /\ right THEN "top_right_normal"
        ELSE IF bottom /\ left THEN "bottom_left_normal"
        ELSE IF bottom /\ right THEN "bottom_right_normal"
        ELSE IF top THEN "top_row_normal"
        ELSE IF bottom THEN "bottom_row_normal"
        ELSE IF left THEN "left_column_normal"
        ELSE IF right THEN "right_column_normal"
        ELSE "interior_normal"

\* C21: a Lighting::render that runs its pixel loops, which it does only on
\* bounds at least 2 wide and 2 high, calls compute_output_pixel exactly
\* once for every coordinate inside the bounds and for no coordinate
\* outside them, each time with the kernel of the position: a corner kernel
\* at the corners, the row and column kernels on the edges between them,
\* the interior kernel elsewhere.
C21_EveryPixelOnce ==
    lr_computed =>
        /\ lr_width >= 2 /\ lr_height >= 2
        /\ \A x \in unwrap(ret.region).x0..(unwrap(ret.region).x1 - 1),
              y \in unwrap(ret.region).y0..(unwrap(ret.region).y1 - 1) :
               Cardinality(calls_at(x, y)) = 1
        /\ \A i \in 1..Len(ret.computed) :
               /\ ret.computed[i].x \in unwrap(ret.region).x0..(unwrap(ret.region).x1 - 1)
               /\ ret.computed[i].y \in unwrap(ret.region).y0..(unwrap(ret.region).y1 - 1)
               /\ ret.computed[i].normal
                      = kernel_at(unwrap(ret.region), ret.computed[i].x, ret.computed[i].y)

\* a render over the whole 4x3 surface: four corners, six edge pixels and
\* two interior pixels
C21_Witness ==
    /\ lr_computed
    /\ ret.result.tag = "Ok"
    /\ lr_width = MaxPx /\ lr_height = MaxPx - 1
    /\ Len(ret.computed) = MaxPx * (MaxPx - 1)
    /\ Cardinality({i \in 1..Len(ret.computed) :
                       ret.computed[i].normal = "interior_normal"})
           = (MaxPx - 2) * (MaxPx - 3)

---------------------------------------------------------------------------
(* The bounds Lighting::render returns, under SpecRender *)

lr_succeeded == is_lighting /\ ret.result.tag = "Ok"

lr_returned == unwrap(ret.result.result).output

\* C22: a successful Lighting::render with kernelUnitLength set returns the
\* bounds computed before the input was resampled, whatever the resampled
\* bounds its normals were computed over; with kernelUnitLength not set the
\* normals are computed over the computed bounds and these are returned.
C22_ReturnedBounds ==
    lr_succeeded =>
        /\ lr_returned.bounds = lr_bounds
        /\ is_none(lr_self.kernel_unit_length) => unwrap(ret.region) = lr_bounds
        /\ is_some(lr_self.kernel_unit_length) =>
               unwrap(ret.region)
                   = scale_bounds(lr_bounds, unwrap(lr_self.kernel_unit_length)[1],
                                  unwrap(lr_self.kernel_unit_length)[2])

\* a render whose input was resampled to half its width
C22_Witness ==
    /\ lr_succeeded
    /\ lr_self.kernel_unit_length = Some(<<2, 2>>)
    /\ lr_bounds = IRect(0, 0, MaxPx, MaxPx - 1)
    /\ unwrap(ret.region) # lr_bounds
    /\ unwrap(ret.region).x1 - unwrap(ret.region).x0 < MaxPx
    /\ lr_returned.bounds = lr_bounds

---------------------------------------------------------------------------
(* The parameters of a lighting node, under SpecAtts *)

la_self == last_op.args.self
la_pbag == last_op.args.pbag

\* the attribute sets a parameter of the node
is_parameter(self, attr) ==
    \/ attr \in {"surfaceScale", "kernelUnitLength"}
    \/ self.data.type = "Diffuse" /\ attr = "diffuseConstant"
    \/ self.data.type = "Specular" /\ attr \in {"specularConstant", "specularExponent"}

\* the parameter an attribute sets
parameter(self, attr) ==
    CASE attr = "surfaceScale" -> self.surface_scale
      [] attr = "kernelUnitLength" -> self.kernel_unit_length
      [] attr = "diffuseConstant" -> self.data.diffuse_constant
      [] attr = "specularConstant" -> self.data.specular_constant
      [] attr = "specularExponent" -> self.data.specular_exponent

\* what an attribute string stands for
parsed(attr, value) ==
    IF attr = "kernelUnitLength"
    THEN Some(unwrap(number_optional_number(value).result))
    ELSE unwrap(parsers_number(value).result)

\* the strings of the model that are inside the range of each attribute
InRange(attr) ==
    CASE attr = "surfaceScale" -> {"0.5"}
      [] attr = "kernelUnitLength" -> {"2", "1 2"}
      [] attr = "specularExponent" -> {"1", "128"}
      [] OTHER -> {"0", "0.5", "1", "128", "128.5"}

\* the attributes of the bag that give a parameter of the node a value
\* outside its range, or no value
offending(self, pbag) ==
    {i \in 1..Len(pbag) :
        is_parameter(self, pbag[i][1]) /\ pbag[i][2] \notin InRange(pbag[i][1])}

\* the last attribute of the bag with the name of attribute i
is_last(pbag, i) == \A j \in 1..Len(pbag) : pbag[j][1] = pbag[i][1] => j <= i

\* every parameter of the node is inside its range
parameters_in_range(self) ==
    /\ is_some(self.kernel_unit_length) =>
           unwrap(self.kernel_unit_length)[1] > 0 /\ unwrap(self.kernel_unit_length)[2] > 0
    /\ self.data.type = "Diffuse" => ~lt(self.data.diffuse_constant, f64_from(0))
    /\ self.data.type = "Specular" =>
           /\ ~lt(self.data.specular_constant, f64_from(0))
           /\ ~lt(self.data.specular_exponent, f64_from(1))
           /\ ~lt(f64_from(128), self.data.specular_exponent)

\* C23: Lighting::set_atts returns an error when an attribute gives a
\* parameter of the node a value outside its range: a specularExponent
\* outside [1, 128], a negative diffuseConstant or specularConstant, a
\* kernelUnitLength with a component <= 0.  A parameter that was given only
\* such values keeps the value it had.  When every attribute is inside its
\* range, the endpoints 1, 128 and 0 included, set_atts succeeds and each
\* parameter has the last value given to it.  So the parameters of a node
\* are inside their ranges after every set_atts and in every render.
C23_ParameterRanges ==
    /\ last_op.op = "lighting_set_atts" =>
           /\ offending(la_self, la_pbag) # {} => ret.result.tag = "Err"
           /\ (offending(la_self, la_pbag) = {} /\ last_op.args.base)
                  => ret.result.tag = "Ok"
           /\ \A i \in offending(la_self, la_pbag) :
                  (\A j \in 1..Len(la_pbag) :
                       la_pbag[j][1] = la_pbag[i][1] => j \in offending(la_self, la_pbag))
                      => parameter(ret.self, la_pbag[i][1])
                             = parameter(la_self, la_pbag[i][1])
           /\ ret.result.tag = "Ok" =>
                  \A i \in 1..Len(la_pbag) :
                      (is_parameter(la_self, la_pbag[i][1]) /\ is_last(la_pbag, i))
                          => parameter(ret.self, la_pbag[i][1])
                                 = parsed(la_pbag[i][1], la_pbag[i][2])
           /\ parameters_in_range(ret.self)
    /\ last_op.op = "lighting_render_configured" =>
           parameters_in_range(la_self)

\* a specular node given the endpoint 0 for its constant and then an
\* exponent above 128: the constant is set, the exponent is left at 1
C23_Witness ==
    /\ last_op.op = "lighting_set_atts"
    /\ la_self = Lighting_new_specular
    /\ la_pbag = <<<<"specularConstant", "0">>, <<"specularExponent", "128.5">>>>
    /\ ret.result = Err("NodeError::value_error")
    /\ ret.self.data.specular_constant = f64_from(0)
    /\ ret.self.data.specular_exponent = f64_from(1)

---------------------------------------------------------------------------
(* parse_length_list (rust/src/length.rs).  A string is the sequence of its
   characters; the parsed lengths hold their value as an exact fraction. *)

\* str::split: the slices between the occurrences of sep, empty ones kept
RECURSIVE split(_, _)
split(s, sep) ==
    IF s = <<>> THEN <<<<>>>>
    ELSE IF Head(s) = sep THEN <<<<>>>> \o split(Tail(s), sep)
    ELSE <<<<Head(s)>> \o Head(split(Tail(s), sep))>> \o Tail(split(Tail(s), sep))

is_empty(c) == c = <<>>
is_not_empty(c) == c # <<>>

\* str::split_whitespace: the slices between runs of whitespace
split_whitespace(slice) == SelectSeq(split(slice, " "), is_not_empty)

\* flat_map(|slice| slice.split_whitespace())
RECURSIVE flat_map_split_whitespace(_)
flat_map_split_whitespace(slices) ==
    IF slices = <<>> THEN <<>>
    ELSE split_whitespace(Head(slices)) \o flat_map_split_whitespace(Tail(slices))

is_digit(c) == c \in {"0", "1", "2", "3", "4", "5", "6", "7", "8", "9"}

digit(c) ==
    CASE c = "0" -> 0 [] c = "1" -> 1 [] c = "2" -> 2 [] c = "3" -> 3
      [] c = "4" -> 4 [] c = "5" -> 5 [] c = "6" -> 6 [] c = "7" -> 7
      [] c = "8" -> 8 [] c = "9" -> 9

\* the digits a string starts with
RECURSIVE digits(_)
digits(s) ==
    IF s = <<>> \/ ~is_digit(Head(s)) THEN <<>>
    ELSE <<Head(s)>> \o digits(Tail(s))

\* the whole number a sequence of digits stands for
RECURSIVE decimal(_)
decimal(ds) ==
    IF ds = <<>> THEN 0
    ELSE 10 * decimal(SubSeq(ds, 1, Len(ds) - 1)) + digit(ds[Len(ds)])

RECURSIVE pow10(_)
pow10(n) == IF n = 0 THEN 1 ELSE 10 * pow10(n - 1)

drop(s, n) == SubSeq(s, n + 1, Len(s))

\* the number token a string starts with, if it starts with one: an
\* optional sign, digits, and a fraction when a point is followed by a
\* digit; rest is what follows the token
consume_number(s) ==
    LET signed == s # <<>> /\ Head(s) \in {"-", "+"}
        body == IF signed THEN Tail(s) ELSE s
        int == digits(body)
        after_int == drop(body, Len(int))
        frac == IF after_int # <<>> /\ Head(after_int) = "."
                THEN digits(Tail(after_int)) ELSE <<>>
        magnitude == f64(decimal(int) * pow10(Len(frac)) + decimal(frac),
                         pow10(Len(frac)))
    IN  IF int = <<>> /\ frac = <<>> THEN None
        ELSE Some([value |-> IF signed /\ Head(s) = "-"
                             THEN f64(-magnitude[1], magnitude[2]) ELSE magnitude,
                   rest |-> IF frac = <<>> THEN after_int
                            ELSE drop(after_int, 1 + Len(frac))])

\* RsvgLength::parse on a string of digits, signs and points: the first
\* token has to be a number and nothing may follow it
RsvgLength_parse(string, dir) ==
    IF is_none(consume_number(string)) THEN Err("AttributeError::Parse")
    ELSE IF unwrap(consume_number(string)).rest # <<>>
    THEN Err("AttributeError::Parse")
    ELSE Ok(RsvgLength(unwrap(consume_number(string)).value, "Default", dir))

\* collect::<Result<Vec<_>, _>>(): the values, or the first error
RECURSIVE collect(_)
collect(results) ==
    IF results = <<>> THEN Ok(<<>>)
    ELSE IF Head(results).tag = "Err" THEN Head(results)
    ELSE IF collect(Tail(results)).tag = "Err" THEN collect(Tail(results))
    ELSE Ok(<<unwrap(Head(results).result)>> \o unwrap(collect(Tail(results)).result))

\* f64 as i64: the fraction is dropped
as_i64(p) == IF p[1] >= 0 THEN p[1] \div p[2] ELSE -((-p[1]) \div p[2])

\* iter().map(|l| l.length as i64).sum()
RECURSIVE sum(_)
sum(dashes) ==
    IF dashes = <<>> THEN 0
    ELSE as_i64(Head(dashes).length) + sum(Tail(dashes))

\* cycle().take(2 * len) when the length is odd
repeated(dashes) ==
    IF Len(dashes) % 2 # 0 THEN dashes \o dashes ELSE dashes

parsed_dashes(s) ==
    collect([i \in 1..Len(flat_map_split_whitespace(split(s, ","))) |->
                RsvgLength_parse(flat_map_split_whitespace(split(s, ","))[i], "Both")])

\* parse_length_list without the repetition of a list of odd length
parse_length_list_unrepeated(s) ==
    IF is_empty(s) THEN Err("AttributeError::Value")
    ELSE IF parsed_dashes(s).tag = "Err" THEN parsed_dashes(s)
    ELSE IF sum(unwrap(parsed_dashes(s).result)) = 0
    THEN Err("AttributeError::Value")
    ELSE Ok(unwrap(parsed_dashes(s).result))

parse_length_list(s) ==
    IF is_empty(s) THEN Err("AttributeError::Value")
    ELSE IF parsed_dashes(s).tag = "Err" THEN parsed_dashes(s)
    ELSE IF sum(repeated(unwrap(parsed_dashes(s).result))) = 0
    THEN Err("AttributeError::Value")
    ELSE Ok(repeated(unwrap(parsed_dashes(s).result)))

---------------------------------------------------------------------------
(* The length-list specification: one call of parse_length_list *)

Chars == {"0", "1", "5", ".", "-", ",", " "}

Strings == UNION {[1..n -> Chars] : n \in 0..MaxLen}

ParseLengthList(s) ==
    /\ pc = "live"
    /\ ret' = parse_length_list(s)
    /\ last_op' = Call("parse_length_list", [s |-> s])
    /\ UNCHANGED <<node, source_surface, last_result, previous_results, affine,
                   paffine, drawing_ctx, new_args, stored, pc,
                   tree, context_stack>>

\* each behaviour parses one string
NextLengths ==
    /\ last_op.op = "new"
    /\ \E s \in Strings : ParseLengthList(s)

SpecLengths == InitRender /\ [][NextLengths]_vars

---------------------------------------------------------------------------
(* The list parse_length_list returns, under SpecLengths *)

is_parse == last_op.op = "parse_length_list"

pl_s == last_op.args.s

is_separator(c) == c \in {",", " "}

\* the places where an item of the string starts: a character that is not
\* a separator, at the start of the string or after a separator
starts(s) ==
    {i \in 1..Len(s) : ~is_separator(s[i]) /\ (i = 1 \/ is_separator(s[i - 1]))}

\* the item that starts at i: the characters up to the next separator
item_at(s, i) ==
    SubSeq(s, i, CHOOSE j \in i..Len(s) :
                    /\ \A k \in i..j : ~is_separator(s[k])
                    /\ (j = Len(s) \/ is_separator(s[j + 1])))

\* the k-th start
start(s, k) == CHOOSE i \in starts(s) : Cardinality({j \in starts(s) : j < i}) = k - 1

\* the items of the string, in the order of the string
items(s) == [k \in 1..Cardinality(starts(s)) |-> item_at(s, start(s, k))]

\* the lengths of the items of a string whose items all parse
lengths(s) ==
    [k \in 1..Len(items(s)) |-> unwrap(RsvgLength_parse(items(s)[k], "Both").result)]

\* C24: a list that parse_length_list returns holds the lengths of the
\* items of the string, where items are separated by commas, whitespace or
\* both and no item is empty: in the order of the string when their count
\* is even, and followed by a copy of themselves in the same order, 2n
\* entries, when their count n is odd.
C24_ListRepeated ==
    (is_parse /\ ret.tag = "Ok") =>
        /\ \A k \in 1..Len(items(pl_s)) :
               RsvgLength_parse(items(pl_s)[k], "Both").tag = "Ok"
        /\ Len(items(pl_s)) % 2 = 0 => unwrap(ret.result) = lengths(pl_s)
        /\ Len(items(pl_s)) % 2 = 1 =>
               /\ Len(unwrap(ret.result)) = 2 * Len(items(pl_s))
               /\ \A k \in 1..Len(items(pl_s)) :
                      /\ unwrap(ret.result)[k] = lengths(pl_s)[k]
                      /\ unwrap(ret.result)[Len(items(pl_s)) + k] = lengths(pl_s)[k]

\* three items, separated by whitespace and by a comma
C24_Witness ==
    /\ is_parse
    /\ pl_s = <<"1", " ", "5", ",", "5">>
    /\ ret.tag = "Ok"
    /\ [k \in 1..6 |-> unwrap(ret.result)[k].length]
           = <<f64_from(1), f64_from(5), f64_from(5),
               f64_from(1), f64_from(5), f64_from(5)>>

\* the sum of the values of a list of lengths
RECURSIVE total(_)
total(ls) == IF ls = <<>> THEN f64_from(0) ELSE add(Head(ls).length, total(Tail(ls)))

all_items_parse(s) ==
    \A k \in 1..Len(items(s)) : RsvgLength_parse(items(s)[k], "Both").tag = "Ok"

\* C25: parse_length_list returns an error exactly when the string is
\* empty, when one of its items does not parse as a length, or when the
\* values of its lengths sum to zero; a list whose values sum to a number
\* that is not zero is accepted.
C25_ErrorExactly ==
    is_parse =>
        (ret.tag = "Err"
            <=> \/ pl_s = <<>>
                \/ ~all_items_parse(pl_s)
                \/ total(lengths(pl_s)) = f64_from(0))

---------------------------------------------------------------------------
(* XmlState and its handlers (rsvg_internals/src/xml.rs).  A node is its
   element name and its parent; the children of a node are not kept. *)

PanicWith(msg) == [tag |-> "Panic", err |-> msg, result |-> None]

\* rsvg_load_new_node
Node(name, parent) == [name |-> name, parent |-> parent]

\* Node::accept_chars: the elements that hold character data
accept_chars(n) == n.name = "text"

\* NodeCreationContext; chars is the text of the chars child of its node
NodeCreationContext(n, chars) ==
    [type |-> "NodeCreationContext", node |-> n, chars |-> chars]

NodeCreationContext_empty == NodeCreationContext(None, <<>>)

StyleContext(is_text_css, text) ==
    [type |-> "StyleContext", is_text_css |-> is_text_css, text |-> text]

\* for (_key, attr, value) in pbag.iter(): the last type attribute decides
RECURSIVE style_is_text_css(_, _)
style_is_text_css(is_text_css, pbag) ==
    IF pbag = <<>> THEN is_text_css
    ELSE style_is_text_css(IF Head(pbag)[1] = "type" THEN Head(pbag)[2] = "text/css"
                           ELSE is_text_css,
                           Tail(pbag))

\* XmlHandler::get_node
get_node(handler) ==
    IF handler.type = "NodeCreationContext" THEN Some(unwrap(handler.node))
    ELSE None

\* XmlHandler::start_element of each handler: the handler of the new
\* element.  That of XIncludeContext is not finished and panics.
handler_start_element(handler, parent, name, pbag) ==
    CASE handler.type = "NodeCreationContext" /\ name = "include" ->
            PanicWith("not yet implemented: finish start_xinclude() here")
      [] handler.type = "NodeCreationContext" /\ name = "style" ->
            Ok(StyleContext(style_is_text_css(TRUE, pbag), <<>>))
      [] handler.type = "NodeCreationContext" /\ name \notin {"include", "style"} ->
            Ok(NodeCreationContext(Some(Node(name, parent)), <<>>))
      [] handler.type = "StyleContext" ->
            Ok(StyleContext(style_is_text_css(TRUE, pbag), <<>>))

\* XmlHandler::end_element of each handler: the node of the element, if
\* it has one
handler_end_element(handler, name) ==
    IF handler.type = "NodeCreationContext" THEN Some(unwrap(handler.node))
    ELSE None

\* XmlHandler::characters of each handler
handler_characters(handler, text) ==
    IF handler.type = "StyleContext" THEN [handler EXCEPT !.text = @ \o text]
    ELSE IF Len(text) = 0 THEN handler
    ELSE IF accept_chars(unwrap(handler.node)) THEN [handler EXCEPT !.chars = @ \o text]
    ELSE handler

Context(element_name, handler) == [element_name |-> element_name, handler |-> handler]

Tree_new(root) == [root |-> root]

\* XmlState::new
XmlState_new == [tree |-> None, context_stack |-> <<>>]

\* Vec::last, Vec::pop
last(v) == IF v = <<>> THEN None ELSE Some(v[Len(v)])
popped(v) == SubSeq(v, 1, Len(v) - 1)

\* what a call leaves behind: the state and what it returned
Left(self, result) == [self |-> self, result |-> result]

\* XmlState::set_root
set_root(self, root) ==
    IF is_some(self.tree)
    THEN Left(self, PanicWith("The tree root has already been set"))
    ELSE Left([self EXCEPT !.tree = Some(Tree_new(root))], Ok(<<>>))

\* XmlState::steal_tree
steal_tree(self) == Left([self EXCEPT !.tree = None], Ok(self.tree))

\* XmlState::start_element
XmlState_start_element(self, name, pbag) ==
    LET next_context ==
            IF is_some(last(self.context_stack))
            THEN handler_start_element(
                     unwrap(last(self.context_stack)).handler,
                     get_node(unwrap(last(self.context_stack)).handler), name, pbag)
            ELSE handler_start_element(NodeCreationContext_empty, None, name, pbag)
    IN  IF next_context.tag = "Panic" THEN Left(self, next_context)
        ELSE Left([self EXCEPT !.context_stack =
                       Append(@, Context(name, unwrap(next_context.result)))],
                  Ok(<<>>))

\* XmlState::end_element with the root set at the end of every element
\* that has a node
XmlState_end_element_at_any_depth(self, name) ==
    IF is_none(last(self.context_stack))
    THEN Left(self, PanicWith("end_element: XML handler stack is empty!?"))
    ELSE LET top == unwrap(last(self.context_stack))
             rest == [self EXCEPT !.context_stack = popped(@)]
         IN  IF name # top.element_name
             THEN Left(rest, PanicWith("assertion failed: name == top.element_name"))
             ELSE IF is_some(handler_end_element(top.handler, name))
             THEN set_root(rest, unwrap(handler_end_element(top.handler, name)))
             ELSE Left(rest, Ok(<<>>))

\* XmlState::end_element
XmlState_end_element(self, name) ==
    IF is_none(last(self.context_stack))
    THEN Left(self, PanicWith("end_element: XML handler stack is empty!?"))
    ELSE LET top == unwrap(last(self.context_stack))
             rest == [self EXCEPT !.context_stack = popped(@)]
         IN  IF name # top.element_name
             THEN Left(rest, PanicWith("assertion failed: name == top.element_name"))
             ELSE IF is_some(handler_end_element(top.handler, name))
                     /\ rest.context_stack = <<>>
             THEN set_root(rest, unwrap(handler_end_element(top.handler, name)))
             ELSE Left(rest, Ok(<<>>))

\* XmlState::characters
XmlState_characters(self, text) ==
    IF is_none(last(self.context_stack))
    THEN Left(self, PanicWith("characters: XML handler stack is empty!?"))
    ELSE Left([self EXCEPT !.context_stack[Len(self.context_stack)].handler =
                   handler_characters(@, text)],
              Ok(<<>>))

---------------------------------------------------------------------------
(* The XML specification: the events of a parser on one XmlState *)

ElementNames == {"svg", "text", "style", "include"}

\* the attributes of an element: none, or a type
XmlPropertyBags == {<<>>, <<<<"type", "text/plain">>>>}

Texts == {<<>>, <<"a">>}

XmlSelf == [tree |-> tree, context_stack |-> context_stack]

\* the state a call on the XmlState leaves; a panic ends the behaviour
XmlCall(left, op, args) ==
    /\ pc = "live"
    /\ tree' = left.self.tree
    /\ context_stack' = left.self.context_stack
    /\ ret' = left.result
    /\ pc' = IF left.result.tag = "Panic" THEN "panicked" ELSE pc
    /\ last_op' = Call(op, args)
    /\ UNCHANGED <<node, source_surface, last_result, previous_results, affine,
                   paffine, drawing_ctx, new_args, stored>>

StartElement(name, pbag) ==
    /\ Len(context_stack) < MaxDepth
    /\ XmlCall(XmlState_start_element(XmlSelf, name, pbag), "start_element",
               [name |-> name, pbag |-> pbag])

EndElement(name) ==
    /\ pc = "live"
    /\ XmlCall(XmlState_end_element(XmlSelf, name), "end_element", [name |-> name])

\* the text the handler of a context has kept
kept(context) ==
    IF context.handler.type = "StyleContext" THEN context.handler.text
    ELSE context.handler.chars

Characters(text) ==
    /\ is_some(last(context_stack)) =>
           Len(kept(unwrap(last(context_stack)))) + Len(text) <= MaxText
    /\ XmlCall(XmlState_characters(XmlSelf, text), "characters", [text |-> text])

StealTree ==
    /\ pc = "live"
    /\ XmlCall(steal_tree(XmlSelf), "steal_tree", <<>>)

NextXml ==
    \/ \E name \in ElementNames, pbag \in XmlPropertyBags : StartElement(name, pbag)
    \/ \E name \in ElementNames : EndElement(name)
    \/ \E text \in Texts : Characters(text)
    \/ StealTree

SpecXml == InitRender /\ [][NextXml]_vars

---------------------------------------------------------------------------
(* The context stack of XmlState, under SpecXml *)

xs_name == last_op'.args.name
xs_top == context_stack[Len(context_stack)]
xs_panicked == ret'.tag = "Panic"

\* a start_element step pushes one Context, that of its element
start_pushes ==
    /\ Len(context_stack') = Len(context_stack) + 1
    /\ popped(context_stack') = context_stack
    /\ context_stack'[Len(context_stack')].element_name = xs_name
    /\ ~xs_panicked

\* an end_element step pops the most recently pushed Context and requires
\* its name; on an empty stack it panics
end_pops ==
    IF context_stack = <<>> THEN xs_panicked /\ context_stack' = <<>>
    ELSE /\ context_stack' = popped(context_stack)
         /\ xs_name # xs_top.element_name => xs_panicked

\* a characters step hands the text to the handler on top of the stack and
\* to no other; on an empty stack it panics
characters_to_top ==
    IF context_stack = <<>> THEN xs_panicked /\ context_stack' = <<>>
    ELSE /\ ~xs_panicked
         /\ Len(context_stack') = Len(context_stack)
         /\ popped(context_stack') = popped(context_stack)
         /\ context_stack'[Len(context_stack')]
                = Context(xs_top.element_name,
                          handler_characters(xs_top.handler, last_op'.args.text))

C26_Step ==
    /\ last_op'.op = "start_element" => start_pushes
    /\ last_op'.op = "end_element" => end_pops
    /\ last_op'.op = "characters" => characters_to_top
    /\ last_op'.op = "steal_tree" => context_stack' = context_stack

\* C26: every start_element pushes one Context and every end_element pops
\* the most recently pushed one, so that the depth of the stack is the
\* number of elements started and not yet ended; end_element requires the
\* name of the popped Context, characters reaches only the handler on top
\* of the stack, and end_element or characters on an empty stack panics.
C26_StackDiscipline == [][C26_Step]_vars

---------------------------------------------------------------------------
(* The tree of XmlState, under SpecXml *)

\* the step ends the outermost element, whose handler returns a node
ends_outermost_node ==
    /\ last_op'.op = "end_element"
    /\ Len(context_stack) = 1
    /\ xs_name = xs_top.element_name
    /\ xs_top.handler.type = "NodeCreationContext"

C27_Step ==
    /\ tree' # tree =>
           \/ last_op'.op = "steal_tree"
           \/ /\ ends_outermost_node
              /\ context_stack' = <<>>
              /\ tree = None
              /\ tree' = Some(Tree_new(Node(xs_name, None)))
    /\ ends_outermost_node =>
           IF is_some(tree) THEN xs_panicked /\ tree' = tree
           ELSE ~xs_panicked /\ is_some(tree')
    /\ last_op'.op = "steal_tree" =>
           /\ ret' = Ok(tree)
           /\ tree' = None

\* C27: the tree is set only by an end_element that leaves the stack empty
\* and whose handler returns a node, the outermost element, and never by
\* the end of a nested element or of a style element; the end of a second
\* outermost element while a tree is held panics; steal_tree returns the
\* tree and leaves none, so that the next steal_tree returns nothing.
C27_TreeSetOnce == [][C27_Step]_vars

\* the tree of an svg element is held and the end of a second outermost
\* element has panicked
C27_Witness ==
    /\ last_op.op = "end_element"
    /\ ret = PanicWith("The tree root has already been set")
    /\ tree = Some(Tree_new(Node("svg", None)))
    /\ context_stack = <<>>
    /\ pc = "panicked"

---------------------------------------------------------------------------
(* The last result of a context, under Spec, and the source graphic of a
   new context, under SpecBounds *)

\* C28: after FilterContext::new and any sequence of store_result calls
\* last_result holds a value, so get_input with no reference returns that
\* value, not the source surface with the bounds (0, 0, 0, 0), and
\* into_output returns its surface, not the source surface for want of one.
C28_LastResultHeld ==
    /\ is_some(last_result)
    /\ get_input(Self, None) = last_result
    /\ pc = "live" => into_output(Self) = unwrap(last_result).surface
    /\ last_op.op = "into_output" => ret = unwrap(last_result).surface

\* two results were stored and the chain has ended
C28_Witness ==
    /\ Len(stored) = MaxStores
    /\ last_op.op = "into_output"
    /\ last_result = Some(stored[MaxStores].output)
    /\ unwrap(last_result).surface # source_surface

\* C29: on a new context get_input with the reference SourceGraphic
\* returns what get_input with no reference returns: the source surface
\* with the bounds of the whole filter region.
C29_SourceGraphicIsDefault ==
    last_op.op = "new" =>
        /\ get_input(Self, None)
               = Some(FilterOutput(source_surface,
                                   compute_bounds(Self, None, None, None, None)))
        /\ get_input(Self, Some(SourceGraphic)) = get_input(Self, None)

---------------------------------------------------------------------------
(* The order of the failures of Lighting::render, under SpecRender *)

\* the bounds after the resampling by kernelUnitLength, if there is one
lr_resampled ==
    IF is_none(lr_self.kernel_unit_length) THEN lr_bounds
    ELSE scale_bounds(lr_bounds,
                      transform_distance(paffine, unwrap(lr_self.kernel_unit_length)[1],
                                         unwrap(lr_self.kernel_unit_length)[2])[1],
                      transform_distance(paffine, unwrap(lr_self.kernel_unit_length)[1],
                                         unwrap(lr_self.kernel_unit_length)[2])[2])

lr_nothing_done == ~ret.created /\ ret.computed = <<>>

\* C30: Lighting::render fails on an unresolved input first, then on the
\* number of light sources, then on the resampling by kernelUnitLength,
\* then on a size under 2x2 of the resampled bounds, each whatever the
\* later checks would find; the output surface is created and pixels are
\* computed only when all four have passed.
C30_FailureOrder ==
    is_lighting =>
        /\ ~lr_input_resolves =>
               /\ ret.result = get_surface(base_get_input(lr_self.base, Self))
               /\ ret.result.tag = "Err"
               /\ lr_nothing_done
        /\ (lr_input_resolves /\ light_source_count(lr_children) # 1) =>
               /\ ret.result = Err("InvalidLightSourceCount")
               /\ lr_nothing_done
        /\ (lr_input_resolves /\ light_source_count(lr_children) = 1
               /\ is_some(lr_self.kernel_unit_length) /\ lr_env = "scale") =>
               /\ ret.result = Err("CairoError")
               /\ lr_nothing_done
        /\ lr_size_checked =>
               /\ ret.region = Some(lr_resampled)
               /\ too_small(lr_resampled) =>
                      /\ ret.result = Err("LightingInputTooSmall")
                      /\ lr_nothing_done
        /\ ~lr_nothing_done => lr_size_checked /\ ~too_small(lr_resampled)

\* two light sources and bounds one pixel wide: the count is what fails
C30_Witness ==
    /\ is_lighting
    /\ lr_input_resolves
    /\ lr_children = <<"LightSource", "LightSource">>
    /\ lr_bounds = IRect(1, 0, 2, MaxPx - 1)
    /\ ret.result = Err("InvalidLightSourceCount")
    /\ lr_nothing_done

====
